---- MODULE Spec2Model ----
(***************************************************************************)
(* Commission CRM: the status-change automation dispatcher                 *)
(* (src/automations.py), the webhook ingress (src/webhook_handler.py) and  *)
(* the UI operations of src/app.py that write the leads, deals and config  *)
(* tables.                                                                 *)
(*                                                                         *)
(* Every operation runs synchronously to completion, so each is one        *)
(* action.  What an operation did is kept in `last`: its arguments, its    *)
(* return value and fx, the sequence of its effects in program order       *)
(* (handler entered, row written, email / chat / forward / payment-link    *)
(* call with its outcome).                                                 *)
(*                                                                         *)
(* automation is a CRMAutomation instance that outlives one call (its      *)
(* config snapshot); production_complete_fired is the history of the leads *)
(* for which the Production Complete workflow has run.                     *)
(*                                                                         *)
(* payment is one handle_payment_received call followed statement by       *)
(* statement (connect, the two UPDATEs, commit, notification), for the     *)
(* interleavings of its transaction with the other operations.             *)
(*                                                                         *)
(* Money: a deal value v is a whole number of dollars; a commission amount *)
(* is kept in cents, so that r percent of v is exactly r * v.              *)
(***************************************************************************)
EXTENDS Integers, Sequences, FiniteSets, TLC

VARIABLES leads, deals, calls, activity_log, config, last,
          calc_in, calc_out, automation, production_complete_fired, payment

store_vars == <<leads, deals, calls, activity_log, config>>
vars == <<leads, deals, calls, activity_log, config, last, calc_in, calc_out,
          automation, production_complete_fired, payment>>

(***************************************************************************)
(* Bounds of the model.                                                    *)
(***************************************************************************)
MaxLeads == 1
MaxDeals == 2
MaxLog == 1
MaxCalcValue == 60

(***************************************************************************)
(* Values.                                                                 *)
(***************************************************************************)
\* Python None and SQL NULL of a text column or a payload field.
None == "None"

\* A nullable REAL column: << >> is NULL, <<x>> holds x.
NullReal == << >>

Real(x) == << x >>

\* Python truthiness of a text value that may be None.
Truthy(v) == v # None /\ v # ""

status_options ==
    << "New Lead", "Notified Closer", "Call Booked", "Call Confirmed",
       "Deal Closed", "Production Started", "Production Complete",
       "Closed + Paid" >>

Statuses == { status_options[i] : i \in 1..Len(status_options) }

\* Deal values the Create Deal form is given (dollars).
DealValues == { 1000, 5000 }

PaymentStatusOptions == { "Pending", "Paid", "Overdue" }

DealStages == { "Proposal Sent", "Negotiation", "Won", "Lost" }

ConfigKeys ==
    { "discord_webhook", "make_webhook", "stripe_api_key", "smtp_server",
      "smtp_email", "smtp_password", "manager_email" }

\* The team_members table.  No operation of the automation or of the ingress
\* writes it; it holds one member per role, member_id being the index.
team_members ==
    << [name |-> "Cleo", role |-> "Closer", email |-> "cleo@crm"],
       [name |-> "Pat", role |-> "Producer", email |-> "pat@crm"],
       [name |-> "Lee", role |-> "Lead Generator", email |-> "lee@crm"],
       [name |-> "Max", role |-> "Manager", email |-> "max@crm"] >>

MemberIds == 1..Len(team_members)

\* The calls_meetings table.  No operation of src/ writes it; lead 1 has two
\* calls and every other lead has none.
calls_meetings ==
    << [lead_id |-> 1, call_datetime |-> "2023-12-31T09:00", notes_summary |-> "intro"],
       [lead_id |-> 1, call_datetime |-> "2024-01-01T10:00", notes_summary |-> "demo"] >>

\* ORDER BY call_datetime: the order of the ISO strings of the table.
DatetimeRank(s) ==
    CASE s = "2023-12-31T09:00" -> 1
      [] s = "2024-01-01T10:00" -> 2
      [] OTHER -> 0

\* str(n) of a row id, and int(s) of a payload field.  int(s) raises
\* ValueError when s is not a decimal numeral.
IdRange == 0..(MaxLeads + MaxDeals + 2)

IsNumeral(s) == \E n \in IdRange : ToString(n) = s

ParseInt(s) == CHOOSE n \in IdRange : ToString(n) = s

(***************************************************************************)
(* The store, as one record, for the operators that read and write it.     *)
(***************************************************************************)
Store ==
    [leads |-> leads, deals |-> deals, calls |-> calls,
     activity_log |-> activity_log, config |-> config]

\* The row of an effect: every effect has the same fields.
Fx(kind, to, what, data, outcome) ==
    [kind |-> kind, to |-> to, what |-> what, data |-> data, outcome |-> outcome]

\* CRMAutomation.__init__ / _load_config: the snapshot of the config table.
_load_config(st) == st.config

\* self.config read from the config table at each use.
self_config_reloaded(instance, st) == _load_config(st)

\* self.config of a CRMAutomation instance: what __init__ loaded.
self_config(instance, st) == instance.config

cfg_get(cfg, key) == cfg[key]

(***************************************************************************)
(* Commission calculator.                                                  *)
(***************************************************************************)
LeadGenRate == 8
CloserRate == 10
ProducerRate == 8
TotalRate == 26

\* calculate_commissions paying the producer at the closer's rate.
calculate_commissions_producer_rate(deal_value) ==
    [lead_gen |-> deal_value * LeadGenRate,
     closer |-> deal_value * CloserRate,
     producer |-> deal_value * CloserRate,
     total |-> deal_value * TotalRate]

\* app.py calculate_commissions.
calculate_commissions(deal_value) ==
    [lead_gen |-> deal_value * LeadGenRate,
     closer |-> deal_value * CloserRate,
     producer |-> deal_value * ProducerRate,
     total |-> deal_value * TotalRate]

(***************************************************************************)
(* External collaborators.  env is the set of channels whose transport     *)
(* fails during the operation (SMTP error, non-204 / non-200 response,     *)
(* network error, payment-provider error).                                 *)
(***************************************************************************)
Channels == { "email", "discord", "make", "stripe" }

\* _send_email: the effect of one call; it returns outcome = "ok".
_send_email(cfg, env, to_email, subject, data) ==
    Fx("email", to_email, subject, data,
       IF ~(Truthy(cfg_get(cfg, "smtp_server")) /\ Truthy(cfg_get(cfg, "smtp_email"))
            /\ Truthy(cfg_get(cfg, "smtp_password")))
       THEN "unconfigured"
       ELSE IF "email" \in env THEN "failed" ELSE "ok")

\* _send_discord.
_send_discord(cfg, env, message, data) ==
    Fx("discord", cfg_get(cfg, "discord_webhook"), message, data,
       IF ~Truthy(cfg_get(cfg, "discord_webhook"))
       THEN "unconfigured"
       ELSE IF "discord" \in env THEN "failed" ELSE "ok")

\* _trigger_make_webhook.
_trigger_make_webhook(cfg, env, event_type, data) ==
    Fx("forward", cfg_get(cfg, "make_webhook"), event_type, data,
       IF ~Truthy(cfg_get(cfg, "make_webhook"))
       THEN "unconfigured"
       ELSE IF "make" \in env THEN "failed" ELSE "ok")

FallbackUrl(deal_id) == "https://stripe.com/invoice/pay/" \o ToString(deal_id)

\* The URL the payment provider issues for a payment link.
ProviderUrl(deal_id) == "https://buy.stripe.com/plink_" \o ToString(deal_id)

\* _create_stripe_payment_link: the URL and the provider call made, if any.
_create_stripe_payment_link(cfg, env, amount, deal_id, lead_data) ==
    IF ~Truthy(cfg_get(cfg, "stripe_api_key"))
    THEN [url |-> FallbackUrl(deal_id), fx |-> << >>]
    ELSE IF "stripe" \in env
         THEN [url |-> FallbackUrl(deal_id),
               fx |-> << Fx("stripe", "PaymentLink.create", "create",
                            <<amount * 100, deal_id, lead_data.lead_id>>, "failed") >>]
         ELSE [url |-> ProviderUrl(deal_id),
               fx |-> << Fx("stripe", "PaymentLink.create", "create",
                            <<amount * 100, deal_id, lead_data.lead_id>>, "ok") >>]

(***************************************************************************)
(* Queries.                                                                *)
(***************************************************************************)
MemberField(member_id, field) ==
    IF member_id \in MemberIds THEN team_members[member_id][field] ELSE None

LeadGenerators == { m \in MemberIds : team_members[m].role = "Lead Generator" }

\* _get_lead_data: the lead row joined with its closer, its producer and a
\* member whose role is Lead Generator; found = FALSE stands for None.
_get_lead_data(st, lead_id) ==
    IF lead_id \in 1..Len(st.leads)
    THEN LET l == st.leads[lead_id]
             lg == IF LeadGenerators = {} THEN 0
                   ELSE CHOOSE m \in LeadGenerators : \A o \in LeadGenerators : m <= o
         IN [found |-> TRUE,
             lead_id |-> lead_id,
             lead_status |-> l.lead_status,
             assigned_closer_id |-> l.assigned_closer_id,
             assigned_producer_id |-> l.assigned_producer_id,
             closer_name |-> MemberField(l.assigned_closer_id, "name"),
             closer_email |-> MemberField(l.assigned_closer_id, "email"),
             producer_name |-> MemberField(l.assigned_producer_id, "name"),
             producer_email |-> MemberField(l.assigned_producer_id, "email"),
             lead_gen_name |-> MemberField(lg, "name"),
             lead_gen_email |-> MemberField(lg, "email")]
    ELSE [found |-> FALSE]

\* SELECT ... FROM deals WHERE lead_id = ? ORDER BY deal_id DESC LIMIT 1:
\* the deal_id of the row, 0 when there is none.
LatestDealId(st, lead_id) ==
    LET ids == { d \in 1..Len(st.deals) : st.deals[d].lead_id = lead_id }
    IN IF ids = {} THEN 0 ELSE CHOOSE d \in ids : \A o \in ids : o <= d

\* ... WHERE lead_id = ? AND payment_status = 'Paid' ORDER BY deal_id DESC LIMIT 1.
LatestPaidDealId(st, lead_id) ==
    LET ids == { d \in 1..Len(st.deals) :
                    st.deals[d].lead_id = lead_id /\ st.deals[d].payment_status = "Paid" }
    IN IF ids = {} THEN 0 ELSE CHOOSE d \in ids : \A o \in ids : o <= d

\* SELECT ... FROM calls_meetings WHERE lead_id = ? ORDER BY call_datetime DESC
\* LIMIT 1: the index of the row, 0 when there is none.
LatestCallId(st, lead_id) ==
    LET ids == { c \in 1..Len(st.calls) : st.calls[c].lead_id = lead_id }
    IN IF ids = {} THEN 0
       ELSE CHOOSE c \in ids :
              \A o \in ids : DatetimeRank(st.calls[o].call_datetime)
                               <= DatetimeRank(st.calls[c].call_datetime)

\* UPDATE deals SET field = value WHERE deal_id = ?.
UpdateDeal(st, deal_id, field, value) ==
    IF deal_id \in 1..Len(st.deals)
    THEN [st EXCEPT !.deals[deal_id][field] = value]
    ELSE st

\* UPDATE leads SET lead_status = ? WHERE lead_id = ?.
UpdateLeadStatus(st, lead_id, value) ==
    IF lead_id \in 1..Len(st.leads)
    THEN [st EXCEPT !.leads[lead_id].lead_status = value]
    ELSE st

\* The effect of an UPDATE: a write of the row it matched, nothing otherwise.
WriteFx(table, n, id, field, value) ==
    IF id \in 1..n THEN << Fx("write", table, field, <<id, value>>, "ok") >> ELSE << >>

HandlerFx(name, lead_id) == Fx("handler", name, "enter", <<lead_id>>, "ok")

\* config.get('manager_email', config.get('smtp_email')).
ManagerEmail(cfg) ==
    IF cfg_get(cfg, "manager_email") # None
    THEN cfg_get(cfg, "manager_email")
    ELSE cfg_get(cfg, "smtp_email")

(***************************************************************************)
(* Workflow handlers.  Each takes the store, the dispatcher's config       *)
(* snapshot, the failing channels and the joined lead context, and gives   *)
(* the store it leaves and its effects in program order.                   *)
(***************************************************************************)
\* Workflow 1 sending the chat message whether or not the closer has an email.
_notify_closer_call_booked_chat_always(st, cfg, env, lead_data) ==
    LET enter == HandlerFx("_notify_closer_call_booked", lead_data.lead_id)
        c == LatestCallId(st, lead_data.lead_id)
        call_time == IF c # 0 THEN st.calls[c].call_datetime ELSE "TBD"
        call_notes == IF c # 0 THEN st.calls[c].notes_summary ELSE ""
        chat == _send_discord(cfg, env, "New Call Booked", <<call_time>>)
    IN [st |-> st,
        fx |-> IF Truthy(lead_data.closer_email)
               THEN << enter,
                       _send_email(cfg, env, lead_data.closer_email,
                                   "New Call Booked", <<call_time, call_notes>>),
                       chat >>
               ELSE << enter, chat >>]

\* Workflow 1 sending the chat message only when the email went out.
_notify_closer_call_booked_chat_if_mailed(st, cfg, env, lead_data) ==
    LET enter == HandlerFx("_notify_closer_call_booked", lead_data.lead_id)
    IN IF ~Truthy(lead_data.closer_email)
       THEN [st |-> st, fx |-> << enter >>]
       ELSE LET c == LatestCallId(st, lead_data.lead_id)
                call_time == IF c # 0 THEN st.calls[c].call_datetime ELSE "TBD"
                call_notes == IF c # 0 THEN st.calls[c].notes_summary ELSE ""
                mail == _send_email(cfg, env, lead_data.closer_email,
                                    "New Call Booked", <<call_time, call_notes>>)
            IN [st |-> st,
                fx |-> IF mail.outcome = "ok"
                       THEN << enter, mail,
                               _send_discord(cfg, env, "New Call Booked", <<call_time>>) >>
                       ELSE << enter, mail >>]

\* Workflow 1.
_notify_closer_call_booked(st, cfg, env, lead_data) ==
    LET enter == HandlerFx("_notify_closer_call_booked", lead_data.lead_id)
    IN IF ~Truthy(lead_data.closer_email)
       THEN [st |-> st, fx |-> << enter >>]
       ELSE LET c == LatestCallId(st, lead_data.lead_id)
                call_time == IF c # 0 THEN st.calls[c].call_datetime ELSE "TBD"
                call_notes == IF c # 0 THEN st.calls[c].notes_summary ELSE ""
            IN [st |-> st,
                fx |-> << enter,
                          _send_email(cfg, env, lead_data.closer_email,
                                      "New Call Booked", <<call_time, call_notes>>),
                          _send_discord(cfg, env, "New Call Booked", <<call_time>>) >>]

\* Workflow 2 giving up, like workflow 1, when the closer has no email.
_handle_deal_closed_needs_closer(st, cfg, env, lead_data) ==
    LET enter == HandlerFx("_handle_deal_closed", lead_data.lead_id)
        deal_id == LatestDealId(st, lead_data.lead_id)
    IN IF deal_id = 0 \/ ~Truthy(lead_data.closer_email)
       THEN [st |-> st, fx |-> << enter >>]
       ELSE LET deal_value == st.deals[deal_id].deal_value
                link == _create_stripe_payment_link(cfg, env, deal_value, deal_id, lead_data)
            IN [st |-> UpdateDeal(st, deal_id, "stripe_payment_link", link.url),
                fx |-> << enter >> \o link.fx
                         \o WriteFx("deals", Len(st.deals), deal_id,
                                    "stripe_payment_link", link.url)
                         \o << _send_email(cfg, env, lead_data.closer_email,
                                           "Payment Link Generated",
                                           <<deal_value, link.url>>) >>]

\* Workflow 2.
_handle_deal_closed(st, cfg, env, lead_data) ==
    LET enter == HandlerFx("_handle_deal_closed", lead_data.lead_id)
        deal_id == LatestDealId(st, lead_data.lead_id)
    IN IF deal_id = 0
       THEN [st |-> st, fx |-> << enter >>]
       ELSE LET deal_value == st.deals[deal_id].deal_value
                link == _create_stripe_payment_link(cfg, env, deal_value, deal_id, lead_data)
                saved == << enter >> \o link.fx
                           \o WriteFx("deals", Len(st.deals), deal_id,
                                      "stripe_payment_link", link.url)
            IN [st |-> UpdateDeal(st, deal_id, "stripe_payment_link", link.url),
                fx |-> IF Truthy(lead_data.closer_email)
                       THEN Append(saved,
                                   _send_email(cfg, env, lead_data.closer_email,
                                               "Payment Link Generated",
                                               <<deal_value, link.url>>))
                       ELSE saved]

\* Workflow 3 reading the lead's most recent deal, Paid or not.
_notify_producer_new_project_latest_deal(st, cfg, env, lead_data) ==
    LET enter == HandlerFx("_notify_producer_new_project", lead_data.lead_id)
    IN IF ~Truthy(lead_data.producer_email)
       THEN [st |-> st, fx |-> << enter >>]
       ELSE LET d == LatestDealId(st, lead_data.lead_id)
                deal_value == IF d # 0 THEN st.deals[d].deal_value ELSE 0
            IN [st |-> st,
                fx |-> << enter,
                          _send_email(cfg, env, lead_data.producer_email,
                                      "New Production Project", <<deal_value>>),
                          _send_discord(cfg, env, "New Production Project",
                                        <<deal_value, lead_data.producer_name>>) >>]

\* Workflow 3.
_notify_producer_new_project(st, cfg, env, lead_data) ==
    LET enter == HandlerFx("_notify_producer_new_project", lead_data.lead_id)
    IN IF ~Truthy(lead_data.producer_email)
       THEN [st |-> st, fx |-> << enter >>]
       ELSE LET d == LatestPaidDealId(st, lead_data.lead_id)
                deal_value == IF d # 0 THEN st.deals[d].deal_value ELSE 0
            IN [st |-> st,
                fx |-> << enter,
                          _send_email(cfg, env, lead_data.producer_email,
                                      "New Production Project", <<deal_value>>),
                          _send_discord(cfg, env, "New Production Project",
                                        <<deal_value, lead_data.producer_name>>) >>]

\* The "Calculate commissions" lines of workflow 4.
commission_breakdown(deal_value) ==
    [commission_lead_gen |-> deal_value * LeadGenRate,
     commission_closer |-> deal_value * CloserRate,
     commission_producer |-> deal_value * ProducerRate,
     total_commission |-> deal_value * TotalRate]

\* The lead's first deal: ... ORDER BY deal_id ASC LIMIT 1, 0 when none.
FirstDealId(st, lead_id) ==
    LET ids == { d \in 1..Len(st.deals) : st.deals[d].lead_id = lead_id }
    IN IF ids = {} THEN 0 ELSE CHOOSE d \in ids : \A o \in ids : d <= o

\* Workflow 4 splitting the value of the lead's first deal and storing the
\* amounts on its most recent one.
_calculate_and_notify_commissions_first_value(st, cfg, env, lead_data) ==
    LET enter == HandlerFx("_calculate_and_notify_commissions", lead_data.lead_id)
        deal_id == LatestDealId(st, lead_data.lead_id)
    IN IF deal_id = 0
       THEN [st |-> st, fx |-> << enter >>]
       ELSE LET c == commission_breakdown(
                        st.deals[FirstDealId(st, lead_data.lead_id)].deal_value)
                st1 == UpdateDeal(st, deal_id, "commission_lead_gen",
                                  Real(c.commission_lead_gen))
                st2 == UpdateDeal(st1, deal_id, "commission_closer",
                                  Real(c.commission_closer))
                st3 == UpdateDeal(st2, deal_id, "commission_producer",
                                  Real(c.commission_producer))
                st4 == UpdateDeal(st3, deal_id, "total_commission",
                                  Real(c.total_commission))
                amounts == <<c.commission_lead_gen, c.commission_closer,
                             c.commission_producer, c.total_commission>>
                saved == << enter,
                            Fx("write", "deals", "commissions",
                               <<deal_id, amounts>>, "ok") >>
                manager_email == ManagerEmail(cfg)
            IN [st |-> st4,
                fx |-> IF Truthy(manager_email)
                       THEN saved \o
                            << _send_email(cfg, env, manager_email,
                                           "Commission Breakdown", amounts),
                               _send_discord(cfg, env, "Commission Calculation Complete",
                                             amounts) >>
                       ELSE saved]

\* Workflow 4 resolving the manager recipient first and giving up without one.
_calculate_and_notify_commissions_needs_manager(st, cfg, env, lead_data) ==
    LET enter == HandlerFx("_calculate_and_notify_commissions", lead_data.lead_id)
        deal_id == LatestDealId(st, lead_data.lead_id)
        manager_email == ManagerEmail(cfg)
    IN IF deal_id = 0 \/ ~Truthy(manager_email)
       THEN [st |-> st, fx |-> << enter >>]
       ELSE LET c == commission_breakdown(st.deals[deal_id].deal_value)
                st1 == UpdateDeal(st, deal_id, "commission_lead_gen",
                                  Real(c.commission_lead_gen))
                st2 == UpdateDeal(st1, deal_id, "commission_closer",
                                  Real(c.commission_closer))
                st3 == UpdateDeal(st2, deal_id, "commission_producer",
                                  Real(c.commission_producer))
                st4 == UpdateDeal(st3, deal_id, "total_commission",
                                  Real(c.total_commission))
                amounts == <<c.commission_lead_gen, c.commission_closer,
                             c.commission_producer, c.total_commission>>
            IN [st |-> st4,
                fx |-> << enter,
                          Fx("write", "deals", "commissions", <<deal_id, amounts>>, "ok"),
                          _send_email(cfg, env, manager_email,
                                      "Commission Breakdown", amounts),
                          _send_discord(cfg, env, "Commission Calculation Complete",
                                        amounts) >>]

\* A stored amount increased by x; x when nothing is stored.
Accrued(stored, x) == IF stored = NullReal THEN Real(x) ELSE Real(stored[1] + x)

\* Workflow 4 adding the split to the amounts the deal already holds.
_calculate_and_notify_commissions_accumulate(st, cfg, env, lead_data) ==
    LET enter == HandlerFx("_calculate_and_notify_commissions", lead_data.lead_id)
        deal_id == LatestDealId(st, lead_data.lead_id)
    IN IF deal_id = 0
       THEN [st |-> st, fx |-> << enter >>]
       ELSE LET deal == st.deals[deal_id]
                c == commission_breakdown(deal.deal_value)
                st1 == UpdateDeal(st, deal_id, "commission_lead_gen",
                                  Accrued(deal.commission_lead_gen, c.commission_lead_gen))
                st2 == UpdateDeal(st1, deal_id, "commission_closer",
                                  Accrued(deal.commission_closer, c.commission_closer))
                st3 == UpdateDeal(st2, deal_id, "commission_producer",
                                  Accrued(deal.commission_producer, c.commission_producer))
                st4 == UpdateDeal(st3, deal_id, "total_commission",
                                  Accrued(deal.total_commission, c.total_commission))
                amounts == <<c.commission_lead_gen, c.commission_closer,
                             c.commission_producer, c.total_commission>>
                saved == << enter,
                            Fx("write", "deals", "commissions",
                               <<deal_id, amounts>>, "ok") >>
                manager_email == ManagerEmail(cfg)
            IN [st |-> st4,
                fx |-> IF Truthy(manager_email)
                       THEN saved \o
                            << _send_email(cfg, env, manager_email,
                                           "Commission Breakdown", amounts),
                               _send_discord(cfg, env, "Commission Calculation Complete",
                                             amounts) >>
                       ELSE saved]

\* Workflow 4.
_calculate_and_notify_commissions(st, cfg, env, lead_data) ==
    LET enter == HandlerFx("_calculate_and_notify_commissions", lead_data.lead_id)
        deal_id == LatestDealId(st, lead_data.lead_id)
    IN IF deal_id = 0
       THEN [st |-> st, fx |-> << enter >>]
       ELSE LET deal_value == st.deals[deal_id].deal_value
                c == commission_breakdown(deal_value)
                commission_lead_gen == c.commission_lead_gen
                commission_closer == c.commission_closer
                commission_producer == c.commission_producer
                total_commission == c.total_commission
                st1 == UpdateDeal(st, deal_id, "commission_lead_gen", Real(commission_lead_gen))
                st2 == UpdateDeal(st1, deal_id, "commission_closer", Real(commission_closer))
                st3 == UpdateDeal(st2, deal_id, "commission_producer", Real(commission_producer))
                st4 == UpdateDeal(st3, deal_id, "total_commission", Real(total_commission))
                amounts == <<commission_lead_gen, commission_closer,
                             commission_producer, total_commission>>
                saved == << enter,
                            Fx("write", "deals", "commissions",
                               <<deal_id, amounts>>, "ok") >>
                manager_email == ManagerEmail(cfg)
            IN [st |-> st4,
                fx |-> IF Truthy(manager_email)
                       THEN saved \o
                            << _send_email(cfg, env, manager_email,
                                           "Commission Breakdown", amounts),
                               _send_discord(cfg, env, "Commission Calculation Complete",
                                             amounts) >>
                       ELSE saved]

\* Workflow 5.
_setup_recurring_payment(st, cfg, env, lead_data) ==
    LET enter == HandlerFx("_setup_recurring_payment", lead_data.lead_id)
        manager_email == ManagerEmail(cfg)
        d == LatestDealId(st, lead_data.lead_id)
        deal_value == IF d # 0 THEN st.deals[d].deal_value ELSE 0
    IN [st |-> st,
        fx |-> IF Truthy(manager_email)
               THEN << enter,
                       _send_email(cfg, env, manager_email,
                                   "Client Fulfilled - Setup Recurring Payment",
                                   <<deal_value>>),
                       _send_discord(cfg, env, "Client Fulfilled - Recurring Payment Needed",
                                     <<lead_data.lead_id>>) >>
               ELSE << enter >>]

NoWorkflow(st) == [st |-> st, fx |-> << >>]

\* Dispatch matching new_status without regard to case.
Dispatch_ignore_case(st, cfg, env, lead_data, new_status) ==
    IF new_status \in { "Call Booked", "call booked" }
    THEN _notify_closer_call_booked(st, cfg, env, lead_data)
    ELSE IF new_status = "Deal Closed"
    THEN _handle_deal_closed(st, cfg, env, lead_data)
    ELSE IF new_status = "Production Started"
    THEN _notify_producer_new_project(st, cfg, env, lead_data)
    ELSE IF new_status = "Production Complete"
    THEN _calculate_and_notify_commissions(st, cfg, env, lead_data)
    ELSE IF new_status = "Closed + Paid"
    THEN _setup_recurring_payment(st, cfg, env, lead_data)
    ELSE NoWorkflow(st)

\* The if / elif chain of handle_status_change.
Dispatch(st, cfg, env, lead_data, new_status) ==
    IF new_status = "Call Booked"
    THEN _notify_closer_call_booked(st, cfg, env, lead_data)
    ELSE IF new_status = "Deal Closed"
    THEN _handle_deal_closed(st, cfg, env, lead_data)
    ELSE IF new_status = "Production Started"
    THEN _notify_producer_new_project(st, cfg, env, lead_data)
    ELSE IF new_status = "Production Complete"
    THEN _calculate_and_notify_commissions(st, cfg, env, lead_data)
    ELSE IF new_status = "Closed + Paid"
    THEN _setup_recurring_payment(st, cfg, env, lead_data)
    ELSE NoWorkflow(st)

ForwardOf(cfg, env, lead_id, old_status, new_status, lead_data) ==
    _trigger_make_webhook(cfg, env, "status_change",
        [lead_id |-> lead_id, old_status |-> old_status,
         new_status |-> new_status, lead_data |-> lead_data])

\* handle_status_change forwarding only when a workflow was selected.
handle_status_change_forward_if_fired(st, cfg, env, lead_id, old_status, new_status) ==
    LET lead_data == _get_lead_data(st, lead_id)
    IN IF ~lead_data.found
       THEN NoWorkflow(st)
       ELSE LET w == Dispatch(st, cfg, env, lead_data, new_status)
            IN [st |-> w.st,
                fx |-> IF w.fx = << >> THEN w.fx
                       ELSE Append(w.fx, ForwardOf(cfg, env, lead_id, old_status,
                                                   new_status, lead_data))]

\* handle_status_change undoing the workflow's writes when the forward fails.
handle_status_change_rollback(st, cfg, env, lead_id, old_status, new_status) ==
    LET lead_data == _get_lead_data(st, lead_id)
    IN IF ~lead_data.found
       THEN NoWorkflow(st)
       ELSE LET w == Dispatch(st, cfg, env, lead_data, new_status)
                f == ForwardOf(cfg, env, lead_id, old_status, new_status, lead_data)
            IN [st |-> IF f.outcome = "ok" THEN w.st ELSE st,
                fx |-> Append(w.fx, f)]

\* handle_status_change storing new_status on the lead.
handle_status_change_persist(st, cfg, env, lead_id, old_status, new_status) ==
    LET lead_data == _get_lead_data(st, lead_id)
    IN IF ~lead_data.found
       THEN NoWorkflow(st)
       ELSE LET w == Dispatch(st, cfg, env, lead_data, new_status)
            IN [st |-> UpdateLeadStatus(w.st, lead_id, new_status),
                fx |-> Append(w.fx, ForwardOf(cfg, env, lead_id, old_status,
                                              new_status, lead_data))]

\* handle_status_change forwarding before it looks the lead up.
handle_status_change_always_forward(st, cfg, env, lead_id, old_status, new_status) ==
    LET lead_data == _get_lead_data(st, lead_id)
    IN IF ~lead_data.found
       THEN [st |-> st,
             fx |-> << ForwardOf(cfg, env, lead_id, old_status, new_status, lead_data) >>]
       ELSE LET w == Dispatch(st, cfg, env, lead_data, new_status)
            IN [st |-> w.st,
                fx |-> Append(w.fx, ForwardOf(cfg, env, lead_id, old_status,
                                              new_status, lead_data))]

\* handle_status_change storing new_status on the lead before its workflow.
handle_status_change_storing_status(st, cfg, env, lead_id, old_status, new_status) ==
    LET lead_data == _get_lead_data(st, lead_id)
    IN IF ~lead_data.found
       THEN NoWorkflow(st)
       ELSE LET st1 == UpdateLeadStatus(st, lead_id, new_status)
                w == Dispatch(st1, cfg, env, lead_data, new_status)
            IN [st |-> w.st,
                fx |-> Append(w.fx,
                              _trigger_make_webhook(cfg, env, "status_change",
                                  [lead_id |-> lead_id, old_status |-> old_status,
                                   new_status |-> new_status, lead_data |-> lead_data]))]

\* handle_status_change: the workflow, then the forward.
handle_status_change(st, cfg, env, lead_id, old_status, new_status) ==
    LET lead_data == _get_lead_data(st, lead_id)
    IN IF ~lead_data.found
       THEN NoWorkflow(st)
       ELSE LET w == Dispatch(st, cfg, env, lead_data, new_status)
            IN [st |-> w.st,
                fx |-> Append(w.fx,
                              _trigger_make_webhook(cfg, env, "status_change",
                                  [lead_id |-> lead_id, old_status |-> old_status,
                                   new_status |-> new_status, lead_data |-> lead_data]))]

\* handle_payment_received going through the dispatcher after its updates.
handle_payment_received_via_dispatcher(st, cfg, env, lead_id, deal_id) ==
    LET st1 == UpdateDeal(st, deal_id, "payment_status", "Paid")
        st2 == UpdateLeadStatus(st1, lead_id, "Production Started")
        written == WriteFx("deals", Len(st.deals), deal_id, "payment_status", "Paid")
                     \o WriteFx("leads", Len(st.leads), lead_id, "lead_status",
                                "Production Started")
        w == handle_status_change(st2, cfg, env, lead_id, None, "Production Started")
    IN [st |-> w.st, fx |-> written \o w.fx]

\* handle_payment_received storing a status that is not in status_options.
handle_payment_received_in_production(st, cfg, env, lead_id, deal_id) ==
    LET st1 == UpdateDeal(st, deal_id, "payment_status", "Paid")
        st2 == UpdateLeadStatus(st1, lead_id, "In Production")
        written == WriteFx("deals", Len(st.deals), deal_id, "payment_status", "Paid")
                     \o WriteFx("leads", Len(st.leads), lead_id, "lead_status",
                                "In Production")
        lead_data == _get_lead_data(st2, lead_id)
    IN IF lead_data.found
       THEN LET w == _notify_producer_new_project(st2, cfg, env, lead_data)
            IN [st |-> w.st, fx |-> written \o w.fx]
       ELSE [st |-> st2, fx |-> written]

\* handle_payment_received.
handle_payment_received(st, cfg, env, lead_id, deal_id) ==
    LET st1 == UpdateDeal(st, deal_id, "payment_status", "Paid")
        st2 == UpdateLeadStatus(st1, lead_id, "Production Started")
        written == WriteFx("deals", Len(st.deals), deal_id, "payment_status", "Paid")
                     \o WriteFx("leads", Len(st.leads), lead_id, "lead_status",
                                "Production Started")
        lead_data == _get_lead_data(st2, lead_id)
    IN IF lead_data.found
       THEN LET w == _notify_producer_new_project(st2, cfg, env, lead_data)
            IN [st |-> w.st, fx |-> written \o w.fx]
       ELSE [st |-> st2, fx |-> written]

\* handle_producer_confirmation going through the dispatcher.
handle_producer_confirmation_via_dispatcher(st, cfg, env, lead_id) ==
    handle_status_change(st, cfg, env, lead_id, None, "Production Complete")

\* handle_producer_confirmation.
handle_producer_confirmation(st, cfg, env, lead_id) ==
    LET lead_data == _get_lead_data(st, lead_id)
    IN IF lead_data.found
       THEN _calculate_and_notify_commissions(st, cfg, env, lead_data)
       ELSE NoWorkflow(st)

\* log_activity recording the lead as the performer.
log_activity_by_lead(st, lead_id, activity_type, performed_by_id, notes) ==
    LET row == [related_lead_id |-> lead_id, activity_type |-> activity_type,
                performed_by_id |-> lead_id, notes |-> notes]
    IN [st |-> [st EXCEPT !.activity_log = Append(@, row)],
        fx |-> << Fx("write", "activity_log", "insert",
                     <<Len(st.activity_log) + 1, row>>, "ok") >>]

\* log_activity: INSERT INTO activity_log.
log_activity(st, lead_id, activity_type, performed_by_id, notes) ==
    LET row == [related_lead_id |-> lead_id, activity_type |-> activity_type,
                performed_by_id |-> performed_by_id, notes |-> notes]
    IN [st |-> [st EXCEPT !.activity_log = Append(@, row)],
        fx |-> << Fx("write", "activity_log", "insert",
                     <<Len(st.activity_log) + 1, row>>, "ok") >>]

(***************************************************************************)
(* Webhook ingress.  A payload is given by its event type, whether its     *)
(* data / object / metadata path is made of dicts (data_ok), and the       *)
(* fields the handler reads; None is a missing field.                      *)
(***************************************************************************)
Result(st, fx, ret, raised) == [st |-> st, fx |-> fx, ret |-> ret, raised |-> raised]

\* A text parameter compared with an INTEGER PRIMARY KEY column: the numeral's
\* value, 0 (no row) for any other text.
SqlRowId(s) == IF IsNumeral(s) THEN ParseInt(s) ELSE 0

\* The body of the try block of handle_stripe_webhook.
stripe_webhook_body(st, env, payload) ==
    IF payload.type = "payment_intent.succeeded"
    THEN IF ~payload.data_ok
         THEN Result(st, << >>, None, TRUE)
         ELSE IF Truthy(payload.deal_id) /\ Truthy(payload.lead_id)
         THEN IF ~IsNumeral(payload.lead_id) \/ ~IsNumeral(payload.deal_id)
              THEN Result(st, << >>, None, TRUE)
              ELSE LET r == handle_payment_received(st, _load_config(st), env,
                                ParseInt(payload.lead_id), ParseInt(payload.deal_id))
                   IN Result(r.st, r.fx, "True", FALSE)
         ELSE Result(st, << >>, "False", FALSE)
    ELSE IF payload.type = "payment_intent.payment_failed"
    THEN IF ~payload.data_ok
         THEN Result(st, << >>, None, TRUE)
         ELSE IF Truthy(payload.deal_id) /\ Truthy(payload.lead_id)
         THEN LET deal_id == SqlRowId(payload.deal_id)
                  st1 == UpdateDeal(st, deal_id, "payment_status", "Failed")
                  written == WriteFx("deals", Len(st.deals), deal_id,
                                     "payment_status", "Failed")
              IN IF ~IsNumeral(payload.lead_id)
                 THEN Result(st1, written, None, TRUE)
                 ELSE LET r == log_activity(st1, ParseInt(payload.lead_id),
                                   "Payment Failed", 0,
                                   "Payment failed for deal " \o payload.deal_id)
                      IN Result(r.st, written \o r.fx, "True", FALSE)
         ELSE Result(st, << >>, "False", FALSE)
    ELSE Result(st, << >>, "False", FALSE)

\* try: ... except Exception: return False.
CatchAll(r) == IF r.raised THEN Result(r.st, r.fx, "False", FALSE) ELSE r

(***************************************************************************)
(* The connection of handle_payment_received: sqlite3 opens a transaction  *)
(* before the first UPDATE and keeps what the statements wrote from the    *)
(* other connections until conn.commit().                                  *)
(***************************************************************************)
\* UPDATE table SET field = value WHERE <key> = id.
UpdateOf(table, id, field, value) ==
    [table |-> table, id |-> id, field |-> field, value |-> value]

\* The store with one UPDATE applied to it.
ApplyUpdate(st, w) ==
    IF w.table = "deals"
    THEN UpdateDeal(st, w.id, w.field, w.value)
    ELSE UpdateLeadStatus(st, w.id, w.value)

RECURSIVE ApplyUpdates(_, _)
ApplyUpdates(st, pending) ==
    IF pending = << >> THEN st
    ELSE ApplyUpdates(ApplyUpdate(st, Head(pending)), Tail(pending))

\* cursor.execute on a connection that commits each statement by itself.
cursor_execute_autocommit(st, pending, w) ==
    [st |-> ApplyUpdate(st, w), pending |-> pending]

\* cursor.execute of an UPDATE inside the open transaction: the committed
\* store is as before, the write waits for the commit.
cursor_execute(st, pending, w) ==
    [st |-> st, pending |-> Append(pending, w)]

\* conn.commit(): the writes of the transaction reach the store together.
conn_commit(st, pending) == ApplyUpdates(st, pending)

handle_stripe_webhook(st, env, payload) == CatchAll(stripe_webhook_body(st, env, payload))

\* The body of the try block of handle_make_webhook.
make_webhook_body(st, env, payload) ==
    IF payload.event_type = "producer_confirmation"
    THEN IF ~payload.data_ok
         THEN Result(st, << >>, None, TRUE)
         ELSE IF Truthy(payload.lead_id)
         THEN IF ~IsNumeral(payload.lead_id)
              THEN Result(st, << >>, None, TRUE)
              ELSE LET r == handle_producer_confirmation(st, _load_config(st), env,
                                ParseInt(payload.lead_id))
                   IN Result(r.st, r.fx, "True", FALSE)
         ELSE Result(st, << >>, "False", FALSE)
    ELSE IF payload.event_type = "manual_status_update"
    THEN IF ~payload.data_ok
         THEN Result(st, << >>, None, TRUE)
         ELSE IF Truthy(payload.lead_id) /\ Truthy(payload.new_status)
         THEN IF ~IsNumeral(payload.lead_id)
              THEN Result(st, << >>, None, TRUE)
              ELSE LET r == handle_status_change(st, _load_config(st), env,
                                ParseInt(payload.lead_id), payload.old_status,
                                payload.new_status)
                   IN Result(r.st, r.fx, "True", FALSE)
         ELSE Result(st, << >>, "False", FALSE)
    ELSE Result(st, << >>, "False", FALSE)

handle_make_webhook(st, env, payload) == CatchAll(make_webhook_body(st, env, payload))

\* log_webhook_event replacing the log by its entry.
log_webhook_event_replace(st, webhook_type, payload_text, success) ==
    LET row == [related_lead_id |-> 0,
                activity_type |-> "Webhook_" \o webhook_type,
                performed_by_id |-> 0,
                notes |-> "Success: " \o success \o ", Payload: " \o payload_text]
    IN [st |-> [st EXCEPT !.activity_log = << row >>],
        fx |-> << Fx("write", "activity_log", "insert", <<1, row>>, "ok") >>]

\* log_webhook_event: INSERT INTO activity_log of a system entry.  success is
\* str(success); payload_text stands for json.dumps(payload)[:500].
log_webhook_event(st, webhook_type, payload_text, success) ==
    LET row == [related_lead_id |-> 0,
                activity_type |-> "Webhook_" \o webhook_type,
                performed_by_id |-> 0,
                notes |-> "Success: " \o success \o ", Payload: " \o payload_text]
    IN [st |-> [st EXCEPT !.activity_log = Append(@, row)],
        fx |-> << Fx("write", "activity_log", "insert",
                     <<Len(st.activity_log) + 1, row>>, "ok") >>]

(***************************************************************************)
(* Inputs.                                                                 *)
(***************************************************************************)
\* Lead ids of the callers: the ids the store can hold and one past them.
\* Deal ids: the ids the store can hold (one is absent while the store holds
\* fewer deals).
LeadIdInputs == 1..(MaxLeads + 1)

DealIdInputs == 1..MaxDeals

\* new_status of a call: the five mapped values, an unmapped status and a
\* case variant of a mapped one.
NewStatusInputs ==
    { "Call Booked", "Deal Closed", "Production Started", "Production Complete",
      "Closed + Paid", "Call Confirmed", "call booked" }

OldStatusInputs == { "New Lead", "Deal Closed" }

\* A metadata or data field of a payload: missing, not a numeral, or the
\* numeral of an id.
TextIds(ids) == { None, "abc" } \cup { ToString(n) : n \in ids }

StripeEventTypes ==
    { "payment_intent.succeeded", "payment_intent.payment_failed", "charge.refunded" }

StripePayloads ==
    { p \in [type : StripeEventTypes, data_ok : BOOLEAN,
             deal_id : TextIds(DealIdInputs), lead_id : TextIds(LeadIdInputs)] :
        /\ ~p.data_ok => (p.deal_id = None /\ p.lead_id = None)
        /\ p.type = "charge.refunded" => (p.deal_id = None /\ p.lead_id = None) }

\* new_status of a manual_status_update event: two mapped values, an
\* unmapped status and a value outside the enumeration.
MakeNewStatusInputs ==
    { "Deal Closed", "Production Complete", "Call Confirmed", "Archived" }

MakeEventTypes == { "producer_confirmation", "manual_status_update", "ping" }

MakePayloads ==
    { p \in [event_type : MakeEventTypes, data_ok : BOOLEAN,
             lead_id : TextIds(LeadIdInputs),
             new_status : MakeNewStatusInputs \cup { None },
             old_status : { "New Lead", None }] :
        /\ ~p.data_ok => (p.lead_id = None /\ p.new_status = None /\ p.old_status = None)
        /\ p.event_type # "manual_status_update"
              => (p.new_status = None /\ p.old_status = None)
        /\ p.event_type = "ping" => p.lead_id = None }

\* The settings form: the six keys it saves, each left empty or filled in.
SettingsForms ==
    { [discord_webhook |-> "https://discord/hook", make_webhook |-> "https://make/hook",
       stripe_api_key |-> "sk_test", smtp_server |-> "smtp.crm",
       smtp_email |-> "crm@crm", smtp_password |-> "pw"],
      [discord_webhook |-> "https://discord/hook", make_webhook |-> "",
       stripe_api_key |-> "", smtp_server |-> "",
       smtp_email |-> "crm@crm", smtp_password |-> ""] }

FormKeys == ConfigKeys \ { "manager_email" }

Closers == { m \in MemberIds : team_members[m].role = "Closer" }

Producers == { m \in MemberIds : team_members[m].role = "Producer" }

\* Transport failures during one operation: none, one channel, or all.
Envs == { {} } \cup { { c } : c \in Channels } \cup { Channels }

Op(op, args, ret, raised, fx) ==
    [op |-> op, args |-> args, ret |-> ret, raised |-> raised, fx |-> fx]

\* No commission split has been computed.
NoCalc == [by |-> "none", lead_gen |-> 0, closer |-> 0, producer |-> 0, total |-> 0]

\* No request is being served.
Idle == Op("idle", << >>, None, FALSE, << >>)

\* No CRMAutomation instance is being kept.
NotConstructed == [constructed |-> FALSE, config |-> [k \in ConfigKeys |-> None]]

\* No handle_payment_received call is being followed.
NoPayment ==
    [pc |-> "none", lead_id |-> 0, deal_id |-> 0,
     config |-> [k \in ConfigKeys |-> None], pending |-> << >>, fx |-> << >>]

\* The leads for which the effects show the Production Complete workflow ran.
FiredBy(fx) ==
    { fx[i].data[1] : i \in { j \in 1..Len(fx) :
                                /\ fx[j].kind = "handler"
                                /\ fx[j].to = "_calculate_and_notify_commissions" } }

(***************************************************************************)
(* Initial state: init_database has created the empty tables.              *)
(***************************************************************************)
Init ==
    /\ leads = << >>
    /\ deals = << >>
    /\ calls = calls_meetings
    /\ activity_log = << >>
    /\ config = [k \in ConfigKeys |-> None]
    /\ last = Idle
    /\ calc_in = 0
    /\ calc_out = NoCalc
    /\ automation = NotConstructed
    /\ production_complete_fired = {}
    /\ payment = NoPayment

(***************************************************************************)
(* UI operations of app.py.  Requests are served one at a time: an         *)
(* operation starts when none is being served and runs to completion.      *)
(***************************************************************************)
\* Add New Lead form.
AddLead ==
    \E closer \in Closers \cup { 0 }, producer \in Producers \cup { 0 } :
        /\ last = Idle
        /\ Len(leads) < MaxLeads
        /\ leads' = Append(leads, [lead_status |-> "New Lead",
                                   assigned_closer_id |-> closer,
                                   assigned_producer_id |-> producer])
        /\ last' = Op("AddLead", [lead_id |-> Len(leads) + 1], None, FALSE, << >>)
        /\ UNCHANGED <<deals, calls, activity_log, config, calc_in, calc_out,
                     automation, production_complete_fired, payment>>

\* Update Status button.
UpdateStatus ==
    \E lead_to_update \in 1..Len(leads), new_status \in Statuses :
        /\ last = Idle
        /\ leads' = [leads EXCEPT ![lead_to_update].lead_status = new_status]
        /\ last' = Op("UpdateStatus",
                      [lead_id |-> lead_to_update,
                       old_status |-> leads[lead_to_update].lead_status,
                       new_status |-> new_status], None, FALSE, << >>)
        /\ UNCHANGED <<deals, calls, activity_log, config, calc_in, calc_out,
                     automation, production_complete_fired, payment>>

\* The form inserting the deal without its commission columns.
CreateDealOf_null_commissions(values) ==
    \E lead_id \in 1..Len(leads), deal_value \in values,
       deal_stage \in DealStages, payment_status \in PaymentStatusOptions :
        /\ last = Idle
        /\ Len(deals) < MaxDeals
        /\ deal_value > 0
        /\ deals' = Append(deals,
               [lead_id |-> lead_id, deal_value |-> deal_value,
                payment_status |-> payment_status,
                stripe_payment_link |-> None,
                commission_lead_gen |-> NullReal,
                commission_closer |-> NullReal,
                commission_producer |-> NullReal,
                total_commission |-> NullReal])
        /\ leads' = IF deal_stage = "Won"
                    THEN [leads EXCEPT ![lead_id].lead_status = "Deal Closed"]
                    ELSE leads
        /\ last' = Op("CreateDeal",
                      [lead_id |-> lead_id, deal_id |-> Len(deals) + 1,
                       deal_stage |-> deal_stage,
                       old_status |-> leads[lead_id].lead_status],
                      None, FALSE, << >>)
        /\ UNCHANGED <<calls, activity_log, config, calc_in, calc_out,
                       automation, production_complete_fired, payment>>

\* Create New Deal form, the deal value drawn from values.
CreateDealOf(values) ==
    \E lead_id \in 1..Len(leads), deal_value \in values,
       deal_stage \in DealStages, payment_status \in PaymentStatusOptions :
        LET commissions == calculate_commissions(deal_value)
        IN /\ last = Idle
           /\ Len(deals) < MaxDeals
           /\ deal_value > 0
           /\ deals' = Append(deals,
                  [lead_id |-> lead_id, deal_value |-> deal_value,
                   payment_status |-> payment_status,
                   stripe_payment_link |-> None,
                   commission_lead_gen |-> Real(commissions.lead_gen),
                   commission_closer |-> Real(commissions.closer),
                   commission_producer |-> Real(commissions.producer),
                   total_commission |-> Real(commissions.total)])
           /\ leads' = IF deal_stage = "Won"
                       THEN [leads EXCEPT ![lead_id].lead_status = "Deal Closed"]
                       ELSE leads
           /\ last' = Op("CreateDeal",
                         [lead_id |-> lead_id, deal_id |-> Len(deals) + 1,
                          deal_stage |-> deal_stage,
                          old_status |-> leads[lead_id].lead_status],
                         None, FALSE, << >>)
           /\ UNCHANGED <<calls, activity_log, config, calc_in, calc_out,
                     automation, production_complete_fired, payment>>

CreateDeal == CreateDealOf(DealValues)

\* The form with one deal value, where the value plays no part.
CreateDealFlat == CreateDealOf({ 1000 })

\* The form submitted while the deals table is empty.
CreateFirstDeal ==
    /\ deals = << >>
    /\ CreateDealFlat

\* Save Settings: INSERT OR REPLACE of the six keys of the form.
SaveSettings ==
    \E form \in SettingsForms :
        /\ last = Idle
        /\ config' = [k \in ConfigKeys |-> IF k \in FormKeys THEN form[k] ELSE config[k]]
        /\ last' = Op("SaveSettings", << >>, None, FALSE, << >>)
        /\ UNCHANGED <<leads, deals, calls, activity_log, calc_in, calc_out,
                     automation, production_complete_fired, payment>>

(***************************************************************************)
(* Automation and ingress operations.                                      *)
(***************************************************************************)
Commit(st) ==
    /\ leads' = st.leads
    /\ deals' = st.deals
    /\ calls' = st.calls
    /\ activity_log' = st.activity_log
    /\ config' = st.config
    /\ Len(st.activity_log) <= MaxLog
    /\ UNCHANGED <<calc_in, calc_out, automation, payment>>

\* CRMAutomation().handle_status_change(lead_id, old_status, new_status), the
\* transport failures drawn from envs.
HandleStatusChangeIn(envs) ==
    \E lead_id \in LeadIdInputs, old_status \in OldStatusInputs,
       new_status \in NewStatusInputs, env \in envs :
        LET r == handle_status_change(Store, _load_config(Store), env,
                                      lead_id, old_status, new_status)
        IN /\ last = Idle
           /\ Commit(r.st)
           /\ production_complete_fired' = production_complete_fired \cup FiredBy(r.fx)
           /\ last' = Op("handle_status_change",
                         [lead_id |-> lead_id, old_status |-> old_status,
                          new_status |-> new_status],
                         None, FALSE, r.fx)

HandleStatusChange == HandleStatusChangeIn(Envs)

\* handle_stripe_webhook(payload), the payload drawn from payloads and the
\* transport failures from envs.
StripeWebhookIn(payloads, envs) ==
    \E payload \in payloads, env \in envs :
        LET r == handle_stripe_webhook(Store, env, payload)
        IN /\ last = Idle
           /\ Commit(r.st)
           /\ production_complete_fired' = production_complete_fired \cup FiredBy(r.fx)
           /\ last' = Op("handle_stripe_webhook", payload, r.ret, r.raised, r.fx)

StripeWebhook == StripeWebhookIn(StripePayloads, Envs)

\* handle_make_webhook(payload).
MakeWebhookIn(envs) ==
    \E payload \in MakePayloads, env \in envs :
        LET r == handle_make_webhook(Store, env, payload)
        IN /\ last = Idle
           /\ Commit(r.st)
           /\ production_complete_fired' = production_complete_fired \cup FiredBy(r.fx)
           /\ last' = Op("handle_make_webhook", payload, r.ret, r.raised, r.fx)

MakeWebhook == MakeWebhookIn(Envs)

\* The same calls while no transport fails.  With the configuration empty
\* every send is refused before any transport is used, so the failures play
\* no part.
NoFailure == { {} }

HandleStatusChangeQuiet == HandleStatusChangeIn(NoFailure)

StripeWebhookQuiet == StripeWebhookIn(StripePayloads, NoFailure)

\* Payment events that carry the ids of a deal and of lead 1.
PaymentPayloads ==
    { p \in StripePayloads :
        /\ p.type # "charge.refunded"
        /\ p.data_ok
        /\ IsNumeral(p.deal_id)
        /\ p.lead_id = "1" }

PaymentEvent == StripeWebhookIn(PaymentPayloads, NoFailure)

MakeWebhookQuiet == MakeWebhookIn(NoFailure)

\* automation = CRMAutomation(): an instance that is kept for later calls.
NewAutomation ==
    /\ last = Idle
    /\ automation' = [constructed |-> TRUE, config |-> _load_config(Store)]
    /\ last' = Op("CRMAutomation", << >>, None, FALSE, << >>)
    /\ UNCHANGED <<leads, deals, calls, activity_log, config, calc_in, calc_out,
                   production_complete_fired, payment>>

\* automation.handle_status_change(lead_id, old_status, new_status) on the
\* instance that is kept.
InstanceStatusChange ==
    \E lead_id \in LeadIdInputs, old_status \in OldStatusInputs,
       new_status \in NewStatusInputs, env \in Envs :
        LET r == handle_status_change(Store, self_config(automation, Store), env,
                                      lead_id, old_status, new_status)
        IN /\ last = Idle
           /\ automation.constructed
           /\ Commit(r.st)
           /\ production_complete_fired' = production_complete_fired \cup FiredBy(r.fx)
           /\ last' = Op("automation.handle_status_change",
                         [lead_id |-> lead_id, old_status |-> old_status,
                          new_status |-> new_status],
                         None, FALSE, r.fx)

\* The second step of stripe_webhook_endpoint / make_webhook_endpoint: the
\* ingress has returned its result and log_webhook_event records the
\* delivery, as one entry on top of those the ingress wrote.  The payload is rendered
\* by its event type.
LogWebhookEvent ==
    /\ last.op \in { "handle_stripe_webhook", "handle_make_webhook" }
    /\ LET stripe == last.op = "handle_stripe_webhook"
           r == log_webhook_event(Store, IF stripe THEN "stripe" ELSE "make",
                                  IF stripe THEN last.args.type ELSE last.args.event_type,
                                  last.ret)
       IN /\ Len(r.st.activity_log) <= MaxLog + 1
          /\ leads' = r.st.leads
          /\ deals' = r.st.deals
          /\ calls' = r.st.calls
          /\ activity_log' = r.st.activity_log
          /\ config' = r.st.config
          /\ last' = Op("log_webhook_event",
                        [webhook_type |-> IF stripe THEN "stripe" ELSE "make",
                         success |-> last.ret],
                        None, FALSE, r.fx)
    /\ UNCHANGED <<calc_in, calc_out, automation, production_complete_fired, payment>>

(***************************************************************************)
(* handle_payment_received statement by statement.  The other operations   *)
(* take their steps between its statements; a connection that has written  *)
(* holds the database write lock until it commits.                         *)
(***************************************************************************)
\* The payment connection has written and not yet committed.
WriteLocked == payment.pc \in { "deal_updated", "lead_updated" }

\* The store variables take the value st.
StoreBecomes(st) ==
    /\ leads' = st.leads
    /\ deals' = st.deals
    /\ calls' = st.calls
    /\ activity_log' = st.activity_log
    /\ config' = st.config

\* CRMAutomation() and the sqlite3.connect of handle_payment_received(lead_id,
\* deal_id).
PaymentConnect ==
    \E lead_id \in LeadIdInputs, deal_id \in DealIdInputs :
        /\ payment.pc = "none"
        /\ payment' = [pc |-> "connected", lead_id |-> lead_id, deal_id |-> deal_id,
                       config |-> _load_config(Store), pending |-> << >>,
                       fx |-> << >>]
        /\ UNCHANGED <<leads, deals, calls, activity_log, config, last, calc_in,
                       calc_out, automation, production_complete_fired>>

\* UPDATE deals SET payment_status = 'Paid' WHERE deal_id = ?.
PaymentUpdateDeal ==
    LET r == cursor_execute(Store, payment.pending,
                            UpdateOf("deals", payment.deal_id, "payment_status", "Paid"))
    IN /\ payment.pc = "connected"
       /\ StoreBecomes(r.st)
       /\ payment' = [payment EXCEPT !.pc = "deal_updated", !.pending = r.pending]
       /\ UNCHANGED <<last, calc_in, calc_out, automation, production_complete_fired>>

\* UPDATE leads SET lead_status = 'Production Started' WHERE lead_id = ?.
PaymentUpdateLead ==
    LET r == cursor_execute(Store, payment.pending,
                            UpdateOf("leads", payment.lead_id, "lead_status",
                                     "Production Started"))
    IN /\ payment.pc = "deal_updated"
       /\ StoreBecomes(r.st)
       /\ payment' = [payment EXCEPT !.pc = "lead_updated", !.pending = r.pending]
       /\ UNCHANGED <<last, calc_in, calc_out, automation, production_complete_fired>>

\* conn.commit() and conn.close().
PaymentCommit ==
    /\ payment.pc = "lead_updated"
    /\ StoreBecomes(conn_commit(Store, payment.pending))
    /\ payment' = [payment EXCEPT !.pc = "committed", !.pending = << >>]
    /\ UNCHANGED <<last, calc_in, calc_out, automation, production_complete_fired>>

\* lead_data = self._get_lead_data(lead_id) and, for a stored lead, the
\* Production Started notification.
PaymentNotify ==
    \E env \in Envs :
        LET lead_data == _get_lead_data(Store, payment.lead_id)
            w == IF lead_data.found
                 THEN _notify_producer_new_project(Store, payment.config, env, lead_data)
                 ELSE NoWorkflow(Store)
        IN /\ payment.pc = "committed"
           /\ StoreBecomes(w.st)
           /\ payment' = [payment EXCEPT !.pc = "returned", !.fx = w.fx]
           /\ UNCHANGED <<last, calc_in, calc_out, automation,
                          production_complete_fired>>

\* handle_payment_received has returned.
PaymentReturn ==
    /\ payment.pc = "returned"
    /\ payment' = NoPayment
    /\ UNCHANGED <<leads, deals, calls, activity_log, config, last, calc_in,
                   calc_out, automation, production_complete_fired>>

\* A UI operation of another process, which writes the store and so waits
\* for the write lock.
OtherWriter ==
    /\ ~WriteLocked
    /\ \/ AddLead
       \/ CreateFirstDeal
       \/ UpdateStatus
       \/ SaveSettings

\* The operation has returned to its caller; the next request can be served.
Return ==
    /\ last # Idle
    /\ last' = Idle
    /\ UNCHANGED <<leads, deals, calls, activity_log, config, calc_in, calc_out,
                     automation, production_complete_fired, payment>>

Next ==
    \/ AddLead
    \/ UpdateStatus
    \/ CreateDeal
    \/ SaveSettings
    \/ HandleStatusChange
    \/ StripeWebhook
    \/ MakeWebhook
    \/ Return

Spec == Init /\ [][Next]_vars

\* The dispatcher on a store the forms have filled.
NextDispatch ==
    \/ AddLead
    \/ CreateDeal
    \/ SaveSettings
    \/ HandleStatusChange
    \/ Return

SpecDispatch == Init /\ [][NextDispatch]_vars

\* The payment-provider and workflow-engine ingress on such a store.
NextIngress ==
    \/ AddLead
    \/ CreateDealFlat
    \/ SaveSettings
    \/ StripeWebhook
    \/ Return

SpecIngress == Init /\ [][NextIngress]_vars

\* Both ingress entry points.
NextWebhooks ==
    \/ AddLead
    \/ CreateDealFlat
    \/ StripeWebhookQuiet
    \/ MakeWebhookQuiet
    \/ Return

SpecWebhooks == Init /\ [][NextWebhooks]_vars

\* The workflow-engine ingress on a store the forms have filled.
NextMake ==
    \/ AddLead
    \/ CreateDealFlat
    \/ SaveSettings
    \/ MakeWebhook
    \/ Return

SpecMake == Init /\ [][NextMake]_vars

\* Every operation that can write a lead's status, and the dispatcher: the
\* forms, direct dispatcher calls and both ingress points, with the
\* configuration left as init_database creates it.
NextStatus ==
    \/ AddLead
    \/ UpdateStatus
    \/ CreateFirstDeal
    \/ HandleStatusChangeQuiet
    \/ StripeWebhookQuiet
    \/ MakeWebhookQuiet
    \/ Return

SpecStatus == Init /\ [][NextStatus]_vars

\* A CRMAutomation instance kept across settings changes.
NextInstance ==
    \/ AddLead
    \/ CreateFirstDeal
    \/ SaveSettings
    \/ NewAutomation
    \/ InstanceStatusChange
    \/ Return

SpecInstance == Init /\ [][NextInstance]_vars

\* The operations that write the Activity Log (the payment-failed event and
\* the endpoints' log_webhook_event) among form submissions and dispatcher
\* calls.
NextLog ==
    \/ AddLead
    \/ CreateFirstDeal
    \/ HandleStatusChangeQuiet
    \/ StripeWebhookQuiet
    \/ LogWebhookEvent
    \/ Return

SpecLog == Init /\ [][NextLog]_vars

\* The operations that read or write a deal for a lead: the five workflows
\* and the payment events, on leads with up to MaxDeals deals.
\* The operations that insert deals or write their commissions or status,
\* with the settings left as installed.
NextCommissions ==
    \/ AddLead
    \/ CreateDeal
    \/ HandleStatusChangeQuiet
    \/ MakeWebhookQuiet
    \/ PaymentEvent
    \/ Return

SpecCommissions == Init /\ [][NextCommissions]_vars

\* One payment-succeeded run among the UI operations of other processes.
NextPayment ==
    \/ OtherWriter
    \/ PaymentConnect
    \/ PaymentUpdateDeal
    \/ PaymentUpdateLead
    \/ PaymentCommit
    \/ PaymentNotify
    \/ PaymentReturn
    \/ Return

SpecPayment == Init /\ [][NextPayment]_vars

NextDeals ==
    \/ AddLead
    \/ CreateDeal
    \/ SaveSettings
    \/ HandleStatusChangeQuiet
    \/ PaymentEvent
    \/ Return

SpecDeals == Init /\ [][NextDeals]_vars

(***************************************************************************)
(* The commission calculator on its own: a deal value is drawn, and the UI *)
(* calculator or the lines of workflow 4 compute its split.                *)
(***************************************************************************)
CalcValues == (0..MaxCalcValue) \cup DealValues

InitCalc ==
    /\ leads = << >>
    /\ deals = << >>
    /\ calls = calls_meetings
    /\ activity_log = << >>
    /\ config = [k \in ConfigKeys |-> None]
    /\ last = Idle
    /\ calc_in \in CalcValues
    /\ calc_out = NoCalc
    /\ automation = NotConstructed
    /\ production_complete_fired = {}
    /\ payment = NoPayment

\* calculate_commissions(deal_value) of the Create Deal form.
UiCalculate ==
    LET c == calculate_commissions(calc_in)
    IN /\ calc_out' = [by |-> "calculate_commissions", lead_gen |-> c.lead_gen,
                       closer |-> c.closer, producer |-> c.producer, total |-> c.total]
       /\ UNCHANGED <<leads, deals, calls, activity_log, config, last, calc_in,
                    automation, production_complete_fired, payment>>

\* The commission lines of _calculate_and_notify_commissions.
HandlerCalculate ==
    LET c == commission_breakdown(calc_in)
    IN /\ calc_out' = [by |-> "_calculate_and_notify_commissions",
                       lead_gen |-> c.commission_lead_gen,
                       closer |-> c.commission_closer,
                       producer |-> c.commission_producer,
                       total |-> c.total_commission]
       /\ UNCHANGED <<leads, deals, calls, activity_log, config, last, calc_in,
                    automation, production_complete_fired, payment>>

NextCalc ==
    \/ UiCalculate
    \/ HandlerCalculate

SpecCalc == InitCalc /\ [][NextCalc]_vars

(***************************************************************************)
(* Properties.                                                             *)
(***************************************************************************)
IsHSC == last.op = "handle_status_change"

\* The lead of the last handle_status_change call is in the store.
HSCLeadFound == IsHSC /\ last.args.lead_id \in 1..Len(leads)

\* The positions of the effects of a kind in a sequence of effects.
FxAt(fx, kind) == { i \in 1..Len(fx) : fx[i].kind = kind }

MappedStatuses ==
    { "Call Booked", "Deal Closed", "Production Started", "Production Complete",
      "Closed + Paid" }

\* The workflow table of the specification.
WorkflowOf(new_status) ==
    CASE new_status = "Call Booked" -> "_notify_closer_call_booked"
      [] new_status = "Deal Closed" -> "_handle_deal_closed"
      [] new_status = "Production Started" -> "_notify_producer_new_project"
      [] new_status = "Production Complete" -> "_calculate_and_notify_commissions"
      [] new_status = "Closed + Paid" -> "_setup_recurring_payment"
      [] OTHER -> "none"

\* C1: handle_status_change for a stored lead runs at most one workflow
\* handler, the one the table gives for new_status by exact, case-sensitive
\* equality, and none for any other value (a case variant included),
\* whatever old_status and the lead's stored status are.
C1_DispatchByNewStatus ==
    HSCLeadFound =>
        LET hs == FxAt(last.fx, "handler")
        IN /\ Cardinality(hs) <= 1
           /\ last.args.new_status \in MappedStatuses
                => /\ Cardinality(hs) = 1
                   /\ \A i \in hs : /\ last.fx[i].to = WorkflowOf(last.args.new_status)
                                    /\ last.fx[i].data = << last.args.lead_id >>
           /\ last.args.new_status \notin MappedStatuses => hs = {}

\* A call whose old_status and stored status differ from new_status ran the
\* handler of new_status.
C1_Witness ==
    /\ HSCLeadFound
    /\ last.args.new_status = "Closed + Paid"
    /\ last.args.old_status = "New Lead"
    /\ leads[last.args.lead_id].lead_status = "Deal Closed"
    /\ \E i \in FxAt(last.fx, "handler") : last.fx[i].to = "_setup_recurring_payment"

\* C2: handle_status_change for a stored lead calls the forward to the
\* workflow engine exactly once, as a "status_change" event carrying the
\* lead_id, old_status and new_status of the call, whether or not a workflow
\* ran.  (The forward is the call of _trigger_make_webhook; its outcome is ok,
\* failed or unconfigured.)
C2_ExactlyOneForward ==
    HSCLeadFound =>
        LET fs == FxAt(last.fx, "forward")
        IN /\ Cardinality(fs) = 1
           /\ \A i \in fs :
                /\ last.fx[i].what = "status_change"
                /\ last.fx[i].data.lead_id = last.args.lead_id
                /\ last.fx[i].data.old_status = last.args.old_status
                /\ last.fx[i].data.new_status = last.args.new_status

\* A call that selected no workflow forwarded its arguments.
C2_Witness ==
    /\ HSCLeadFound
    /\ last.args.new_status = "Call Confirmed"
    /\ FxAt(last.fx, "handler") = {}
    /\ \E i \in FxAt(last.fx, "forward") :
          /\ last.fx[i].data.new_status = "Call Confirmed"
          /\ last.fx[i].outcome = "ok"

\* The row a write effect names holds the value the effect wrote.
WriteInPlace(e) ==
    IF e.to = "deals" /\ e.what = "stripe_payment_link"
    THEN deals[e.data[1]].stripe_payment_link = e.data[2]
    ELSE IF e.to = "deals" /\ e.what = "commissions"
    THEN /\ deals[e.data[1]].commission_lead_gen = << e.data[2][1] >>
         /\ deals[e.data[1]].commission_closer = << e.data[2][2] >>
         /\ deals[e.data[1]].commission_producer = << e.data[2][3] >>
         /\ deals[e.data[1]].total_commission = << e.data[2][4] >>
    ELSE FALSE

\* C3: in a handle_status_change call the forward comes after every store
\* write and every send of the workflow; the call does not raise whatever the
\* forward's outcome is, and every write of the workflow is in the store
\* after the call, also when the forward failed or was unconfigured.
C3_ForwardLastAndHarmless ==
    HSCLeadFound =>
        /\ ~last.raised
        /\ \A f \in FxAt(last.fx, "forward") :
              \A i \in 1..Len(last.fx) : i # f => i < f
        /\ \A i \in FxAt(last.fx, "write") : WriteInPlace(last.fx[i])

\* A Deal Closed call wrote the payment link, sent its email, and then its
\* forward failed.
C3_Witness ==
    /\ HSCLeadFound
    /\ last.args.new_status = "Deal Closed"
    /\ FxAt(last.fx, "write") # {}
    /\ FxAt(last.fx, "email") # {}
    /\ \E f \in FxAt(last.fx, "forward") : last.fx[f].outcome = "failed"
    /\ \A i \in FxAt(last.fx, "write") : WriteInPlace(last.fx[i])

\* C4: a handle_status_change call for a stored lead with a new_status that
\* is not one of the five mapped values leaves leads, deals, calls, activity
\* log and config unchanged, attempts no email and no chat-webhook send, and
\* makes the forward.
C4_UnmappedStatusOnlyForwards ==
    [][ ( /\ last'.op = "handle_status_change"
          /\ last'.args.lead_id \in 1..Len(leads)
          /\ last'.args.new_status \notin MappedStatuses )
        => /\ store_vars' = store_vars
           /\ FxAt(last'.fx, "email") = {}
           /\ FxAt(last'.fx, "discord") = {}
           /\ Cardinality(FxAt(last'.fx, "forward")) = 1 ]_vars

\* A call with the unmapped status "Call Confirmed" for a lead that has a
\* closer, with the senders configured, made its forward.
C4_Witness ==
    /\ HSCLeadFound
    /\ last.args.new_status = "Call Confirmed"
    /\ leads[last.args.lead_id].assigned_closer_id # 0
    /\ Truthy(config["smtp_server"]) /\ Truthy(config["discord_webhook"])
    /\ Len(last.fx) = 1
    /\ last.fx[1].kind = "forward"

\* C5: a handle_status_change call with a lead_id that is not in the store
\* returns without raising and has no effect: no store change, no email, no
\* chat-webhook message and no forward, whatever new_status is.
C5_UnknownLeadIsNoOp ==
    [][ ( /\ last'.op = "handle_status_change"
          /\ last'.args.lead_id \notin 1..Len(leads) )
        => /\ store_vars' = store_vars
           /\ last'.fx = << >>
           /\ ~last'.raised ]_vars

\* A Deal Closed call for a lead id past the stored leads, on a store that
\* holds a deal and a full configuration, did nothing.
C5_Witness ==
    /\ IsHSC
    /\ last.args.lead_id \notin 1..Len(leads)
    /\ last.args.new_status = "Deal Closed"
    /\ Len(deals) > 0
    /\ Truthy(config["make_webhook"])
    /\ last.fx = << >>

\* C6: for a deal value v >= 0 the split is lead_gen = 8%, closer = 10%,
\* producer = 8% and total = 26% of v (amounts in cents of a value in
\* dollars), each from v alone, and the UI calculator and the lines of the
\* Production Complete handler give the same four amounts.
C6_CommissionSplit ==
    calc_out.by # "none" =>
        /\ calc_out.lead_gen = 8 * calc_in
        /\ calc_out.closer = 10 * calc_in
        /\ calc_out.producer = 8 * calc_in
        /\ calc_out.total = 26 * calc_in
        /\ \A by \in { "calculate_commissions", "_calculate_and_notify_commissions" } :
              LET c == IF by = "calculate_commissions"
                       THEN << calculate_commissions(calc_in).lead_gen,
                               calculate_commissions(calc_in).closer,
                               calculate_commissions(calc_in).producer,
                               calculate_commissions(calc_in).total >>
                       ELSE << commission_breakdown(calc_in).commission_lead_gen,
                               commission_breakdown(calc_in).commission_closer,
                               commission_breakdown(calc_in).commission_producer,
                               commission_breakdown(calc_in).total_commission >>
              IN c = << calc_out.lead_gen, calc_out.closer,
                        calc_out.producer, calc_out.total >>

\* The handler's lines on v = 5000 gave 400.00, 500.00, 400.00 and 1300.00.
C6_Witness ==
    /\ calc_in = 5000
    /\ calc_out = [by |-> "_calculate_and_notify_commissions", lead_gen |-> 40000,
                   closer |-> 50000, producer |-> 40000, total |-> 130000]

IsStripe == last.op = "handle_stripe_webhook"

IsMake == last.op = "handle_make_webhook"

\* The row ids a text id names: the n whose decimal numeral it is.
RowsNamed(text, n) == { r \in 1..n : ToString(r) = text }

\* The text is the decimal numeral of a positive integer.
NamesAnId(text) == \E r \in 1..(MaxLeads + MaxDeals + 2) : ToString(r) = text

\* C7: a payment_intent.succeeded event whose metadata carries a deal_id and
\* a lead_id (the numerals of ids) makes the ingress return success; after it
\* the deal with that id is Paid, the lead with that id is "Production
\* Started", the Production Started handler has been invoked for that lead,
\* and no forward to the workflow engine was made.
C7_PaymentSucceeded ==
    ( /\ IsStripe
      /\ last.args.type = "payment_intent.succeeded"
      /\ last.args.data_ok
      /\ NamesAnId(last.args.deal_id)
      /\ NamesAnId(last.args.lead_id) )
    => /\ last.ret = "True"
       /\ ~last.raised
       /\ \A d \in RowsNamed(last.args.deal_id, Len(deals)) :
             deals[d].payment_status = "Paid"
       /\ \A l \in RowsNamed(last.args.lead_id, Len(leads)) :
             /\ leads[l].lead_status = "Production Started"
             /\ \E i \in FxAt(last.fx, "handler") :
                   /\ last.fx[i].to = "_notify_producer_new_project"
                   /\ last.fx[i].data = << l >>
       /\ FxAt(last.fx, "forward") = {}

\* The event named a stored deal and a stored lead with a producer: the deal
\* is Paid, the lead Production Started, and the producer was emailed.
C7_Witness ==
    /\ IsStripe
    /\ last.args.type = "payment_intent.succeeded"
    /\ last.ret = "True"
    /\ \E d \in RowsNamed(last.args.deal_id, Len(deals)) :
          deals[d].payment_status = "Paid"
    /\ \E l \in RowsNamed(last.args.lead_id, Len(leads)) :
          leads[l].lead_status = "Production Started"
    /\ \E i \in FxAt(last.fx, "handler") : last.fx[i].to = "_notify_producer_new_project"
    /\ \E i \in FxAt(last.fx, "email") : last.fx[i].outcome = "ok"
    /\ FxAt(last.fx, "forward") = {}

\* C8: a payment_intent.payment_failed event whose metadata carries a deal_id
\* and a lead_id (the numerals of ids) sets that deal's payment_status to
\* "Failed" and no other deal's, appends exactly one Activity Log entry of
\* type "Payment Failed" by the system performer 0 for that lead, sends no
\* email, chat-webhook message or forward, and changes no lead.
C8_PaymentFailed ==
    [][ ( /\ last'.op = "handle_stripe_webhook"
          /\ last'.args.type = "payment_intent.payment_failed"
          /\ last'.args.data_ok
          /\ NamesAnId(last'.args.deal_id)
          /\ NamesAnId(last'.args.lead_id) )
        => /\ Len(deals') = Len(deals)
           /\ \A d \in 1..Len(deals) :
                 deals'[d] = IF ToString(d) = last'.args.deal_id
                             THEN [deals[d] EXCEPT !.payment_status = "Failed"]
                             ELSE deals[d]
           /\ Len(activity_log') = Len(activity_log) + 1
           /\ \A i \in 1..Len(activity_log) : activity_log'[i] = activity_log[i]
           /\ LET row == activity_log'[Len(activity_log')]
              IN /\ ToString(row.related_lead_id) = last'.args.lead_id
                 /\ row.activity_type = "Payment Failed"
                 /\ row.performed_by_id = 0
           /\ leads' = leads
           /\ FxAt(last'.fx, "email") = {}
           /\ FxAt(last'.fx, "discord") = {}
           /\ FxAt(last'.fx, "forward") = {} ]_vars

\* The event named a stored deal of a lead that is Production Started with a
\* producer: the deal is Failed, the log has its entry, the lead is as it was.
C8_Witness ==
    /\ IsStripe
    /\ last.args.type = "payment_intent.payment_failed"
    /\ last.ret = "True"
    /\ \E d \in RowsNamed(last.args.deal_id, Len(deals)) :
          deals[d].payment_status = "Failed"
    /\ Len(activity_log) = 1
    /\ activity_log[1].activity_type = "Payment Failed"
    /\ \E l \in RowsNamed(last.args.lead_id, Len(leads)) :
          /\ activity_log[1].related_lead_id = l
          /\ leads[l].lead_status = "Production Started"
          /\ leads[l].assigned_producer_id # 0
    /\ Truthy(config["smtp_server"])

\* C9: whenever handle_stripe_webhook returns failure, no store mutation has
\* occurred (unknown event type, missing deal_id or lead_id, or values that
\* are present but malformed).
C9_FailureMeansNoMutation ==
    [][ ( /\ last'.op = "handle_stripe_webhook"
          /\ last'.ret = "False" )
        => store_vars' = store_vars ]_vars

\* A field the event type requires is missing, or an id field is no numeral.
RequiredFieldBad ==
    \/ /\ IsStripe
       /\ last.args.type \in { "payment_intent.succeeded", "payment_intent.payment_failed" }
       /\ \/ ~last.args.data_ok
          \/ ~NamesAnId(last.args.deal_id)
          \/ ~NamesAnId(last.args.lead_id)
    \/ /\ IsMake
       /\ last.args.event_type \in { "producer_confirmation", "manual_status_update" }
       /\ \/ ~last.args.data_ok
          \/ ~NamesAnId(last.args.lead_id)
    \/ /\ IsMake
       /\ last.args.event_type = "manual_status_update"
       /\ ~Truthy(last.args.new_status)

\* C10: handle_stripe_webhook and handle_make_webhook never raise; for every
\* payload the call returns a boolean, and it returns failure when a required
\* field is missing or malformed.
C10_IngressNeverRaises ==
    (IsStripe \/ IsMake)
    => /\ ~last.raised
       /\ last.ret \in { "True", "False" }
       /\ RequiredFieldBad => last.ret = "False"

\* The handlers a sequence of effects shows entered, in order.
HandlersEntered(fx) ==
    LET H == FxAt(fx, "handler")
    IN { fx[i].to : i \in H }

\* C11: the workflow-engine ingress routes by event_type.  producer_confirmation
\* with a lead_id (the numeral of an id) returns success, enters the
\* Production Complete handler for that lead and no other, makes no forward
\* and changes no lead; manual_status_update with a lead_id and a new_status
\* returns success and runs handle_status_change with the supplied
\* (old_status, new_status): the mapped handler and one forward carrying that
\* pair; any other event_type returns failure with no effect and no change of
\* the store.
C11_MakeIngressRouting ==
    [][ last'.op = "handle_make_webhook" =>
        LET p == last'.args
            fx == last'.fx
            stored == RowsNamed(p.lead_id, Len(leads))
        IN /\ ( /\ p.event_type = "producer_confirmation"
                /\ p.data_ok
                /\ NamesAnId(p.lead_id) )
              => /\ last'.ret = "True"
                 /\ FxAt(fx, "forward") = {}
                 /\ leads' = leads
                 /\ \A l \in stored :
                       /\ Cardinality(FxAt(fx, "handler")) = 1
                       /\ \A i \in FxAt(fx, "handler") :
                             /\ fx[i].to = "_calculate_and_notify_commissions"
                             /\ fx[i].data = << l >>
                 /\ stored = {} => fx = << >>
           /\ ( /\ p.event_type = "manual_status_update"
                /\ p.data_ok
                /\ NamesAnId(p.lead_id)
                /\ Truthy(p.new_status) )
              => /\ last'.ret = "True"
                 /\ \A l \in stored :
                       /\ Cardinality(FxAt(fx, "forward")) = 1
                       /\ \A i \in FxAt(fx, "forward") :
                             /\ fx[i].what = "status_change"
                             /\ fx[i].data.lead_id = l
                             /\ fx[i].data.old_status = p.old_status
                             /\ fx[i].data.new_status = p.new_status
                       /\ HandlersEntered(fx) =
                             { WorkflowOf(p.new_status) } \ { "none" }
                 /\ stored = {} => fx = << >>
           /\ p.event_type \notin { "producer_confirmation", "manual_status_update" }
              => /\ last'.ret = "False"
                 /\ fx = << >>
                 /\ store_vars' = store_vars ]_vars

\* A producer_confirmation for a stored lead with a deal wrote the commissions
\* and notified the manager without any forward, and the lead kept its status.
C11_Witness ==
    /\ IsMake
    /\ last.args.event_type = "producer_confirmation"
    /\ last.ret = "True"
    /\ \E l \in RowsNamed(last.args.lead_id, Len(leads)) :
          /\ leads[l].lead_status = "Deal Closed"
          /\ \E i \in FxAt(last.fx, "write") : last.fx[i].data[1] = LatestDealId(Store, l)
    /\ \E i \in FxAt(last.fx, "email") : last.fx[i].outcome = "ok"
    /\ FxAt(last.fx, "forward") = {}

\* A manual_status_update for a stored lead was forwarded to the configured
\* workflow engine with the supplied pair.
C11_WitnessManual ==
    /\ IsMake
    /\ last.args.event_type = "manual_status_update"
    /\ last.args.new_status = "Deal Closed"
    /\ last.args.old_status = "New Lead"
    /\ \E i \in FxAt(last.fx, "forward") : last.fx[i].outcome = "ok"

\* C12: in every reachable state every lead's stored status is one of the 8
\* values of status_options, after any sequence of lead creations, UI status
\* updates, deal creations (Won included), dispatcher calls and ingress
\* events, also when a manual_status_update or a dispatcher call supplies a
\* new_status outside the enumeration.
C12_StatusInEnumeration ==
    \A l \in 1..Len(leads) : leads[l].lead_status \in Statuses

\* A manual_status_update with new_status "Archived" was accepted for a
\* stored lead and the lead still has a status of the enumeration.
C12_Witness ==
    /\ IsMake
    /\ last.args.event_type = "manual_status_update"
    /\ last.args.new_status = "Archived"
    /\ last.ret = "True"
    /\ \E l \in RowsNamed(last.args.lead_id, Len(leads)) :
          /\ leads[l].lead_status = "Production Started"
          /\ \E i \in FxAt(last.fx, "forward") : last.fx[i].data.new_status = "Archived"

\* The commission columns of a deal row.
CommissionColumns ==
    { "commission_lead_gen", "commission_closer", "commission_producer",
      "total_commission" }

\* C13 as stated: in every reachable state a deal has a non-null commission
\* amount only if the Production Complete transition has fired for the
\* deal's lead; a deal just created has null commission amounts.
C13_CommissionsOnlyAfterProductionComplete ==
    \A d \in 1..Len(deals) :
        (\E c \in CommissionColumns : deals[d][c] # NullReal)
        => deals[d].lead_id \in production_complete_fired

\* C13 as amended: in every reachable state each deal's four commission
\* amounts are non-null, from the deal's creation on and whether or not the
\* Production Complete transition has fired for its lead: the Create Deal
\* form stores them with the new deal and no operation sets them to null.
C13_CommissionsStoredFromCreation ==
    \A d \in 1..Len(deals) :
        \A c \in CommissionColumns : deals[d][c] # NullReal

\* A deal was just created for a lead for which Production Complete has not
\* fired, and its four commission amounts are the split of its value.
C13_Witness ==
    /\ last.op = "CreateDeal"
    /\ last.args.lead_id \notin production_complete_fired
    /\ deals[last.args.deal_id].lead_id = last.args.lead_id
    /\ deals[last.args.deal_id].deal_value = 5000
    /\ deals[last.args.deal_id].commission_lead_gen = Real(40000)
    /\ deals[last.args.deal_id].commission_closer = Real(50000)
    /\ deals[last.args.deal_id].commission_producer = Real(40000)
    /\ deals[last.args.deal_id].total_commission = Real(130000)

\* The value of a deal of the store, 0 for no deal (id 0).
ValueOf(d) == IF d = 0 THEN 0 ELSE deals[d].deal_value

\* The writes of deal rows that follow position h in a sequence of effects.
DealWritesAfter(fx, h) ==
    { i \in FxAt(fx, "write") : i > h /\ fx[i].to = "deals" }

\* What the handler entered at position h of the last operation's effects
\* did with deals: every deal row it wrote is d, and every deal value or
\* commission split its messages carry is that of deal shown (0 for none).
HandlerUsesDeal(h, d, shown) ==
    LET fx == last.fx
        after(kind) == { i \in FxAt(fx, kind) : i > h }
    IN /\ \A i \in DealWritesAfter(fx, h) : fx[i].data[1] = d
       /\ CASE fx[h].to = "_handle_deal_closed" ->
                 /\ d # 0 => \E i \in DealWritesAfter(fx, h) :
                                fx[i].what = "stripe_payment_link"
                 /\ \A i \in after("stripe") : fx[i].data[2] = d
                 /\ \A i \in after("email") : fx[i].data[1] = ValueOf(shown)
            [] fx[h].to = "_notify_producer_new_project" ->
                 /\ \A i \in after("email") : fx[i].data = << ValueOf(shown) >>
                 /\ \A i \in after("discord") : fx[i].data[1] = ValueOf(shown)
            [] fx[h].to = "_calculate_and_notify_commissions" ->
                 LET c == commission_breakdown(ValueOf(shown))
                     amounts == << c.commission_lead_gen, c.commission_closer,
                                   c.commission_producer, c.total_commission >>
                 IN /\ d # 0 => \E i \in DealWritesAfter(fx, h) :
                                   fx[i].data = << d, amounts >>
                    /\ \A i \in after("email") : fx[i].data = amounts
                    /\ \A i \in after("discord") : fx[i].data = amounts
            [] fx[h].to = "_setup_recurring_payment" ->
                 \A i \in after("email") : fx[i].data = << ValueOf(shown) >>
            [] OTHER -> TRUE

\* The last operation is a payment event carrying the numerals of two ids.
IsPaymentEvent ==
    /\ IsStripe
    /\ last.args.type \in { "payment_intent.succeeded", "payment_intent.payment_failed" }
    /\ last.args.data_ok
    /\ NamesAnId(last.args.deal_id)
    /\ NamesAnId(last.args.lead_id)

\* The deal rows written by the ingress itself: before any handler it enters.
IngressDealWrites ==
    { i \in FxAt(last.fx, "write") :
        /\ last.fx[i].to = "deals"
        /\ \A h \in FxAt(last.fx, "handler") : i < h }

C14_WitnessIngress ==
    /\ IsPaymentEvent
    /\ last.args.deal_id = "1"
    /\ Len(deals) = 2
    /\ deals[2].lead_id = 1
    /\ deals[1].payment_status = "Failed"
    /\ deals[2].payment_status = "Pending"

\* C15: the Activity Log is append-only: no step of any operation (the
\* payment-failed event's log_activity, log_webhook_event, dispatcher calls,
\* form submissions) modifies or removes an entry; every entry stays at its
\* place and the log only grows.
C15_LogAppendOnly ==
    [][ /\ Len(activity_log') >= Len(activity_log)
        /\ \A i \in 1..Len(activity_log) : activity_log'[i] = activity_log[i] ]_vars

\* The log holds the entry of a failed payment and, after it, the entry
\* log_webhook_event wrote for that delivery.
C15_Witness ==
    /\ last.op = "log_webhook_event"
    /\ Len(activity_log) = 2
    /\ activity_log[1].activity_type = "Payment Failed"
    /\ activity_log[1].related_lead_id = 1
    /\ activity_log[2].activity_type = "Webhook_stripe"
    /\ activity_log[2].related_lead_id = 0
    /\ activity_log[2].notes = "Success: True, Payload: payment_intent.payment_failed"

\* A send or forward made with the configuration cfg: where it goes, and
\* whether it was refused for want of configuration.
SentWith(e, cfg) ==
    CASE e.kind = "forward" ->
             /\ e.to = cfg["make_webhook"]
             /\ (e.outcome = "unconfigured") = ~Truthy(cfg["make_webhook"])
      [] e.kind = "discord" ->
             /\ e.to = cfg["discord_webhook"]
             /\ (e.outcome = "unconfigured") = ~Truthy(cfg["discord_webhook"])
      [] e.kind = "email" ->
             /\ (e.outcome = "unconfigured") =
                   ~(Truthy(cfg["smtp_server"]) /\ Truthy(cfg["smtp_email"])
                     /\ Truthy(cfg["smtp_password"]))
             /\ e.what \in { "Commission Breakdown",
                             "Client Fulfilled - Setup Recurring Payment" }
                   => e.to = ManagerEmail(cfg)
      [] e.kind = "stripe" -> Truthy(cfg["stripe_api_key"])
      [] OTHER -> TRUE

\* C16: a dispatcher instance uses the configuration snapshot taken at its
\* construction for its whole lifetime: the snapshot of a new instance is the
\* config table of that moment, no settings upsert changes it, and every
\* send or forward of a later call on the instance goes where the snapshot
\* says and is refused exactly when the snapshot lacks the key, whatever the
\* config table holds by then.
C16_ConfigSnapshot ==
    [][ /\ last'.op = "CRMAutomation" => automation'.config = config
        /\ last'.op # "CRMAutomation" => automation' = automation
        /\ last'.op = "automation.handle_status_change" =>
              /\ \A i \in 1..Len(last'.fx) : SentWith(last'.fx[i], automation.config)
              /\ last'.args.lead_id \in 1..Len(leads) => FxAt(last'.fx, "forward") # {} ]_vars

\* The settings were saved with the workflow-engine URL emptied after the
\* instance was constructed, and a later call on the instance still posted
\* the forward to the old URL.
C16_Witness ==
    /\ last.op = "automation.handle_status_change"
    /\ automation.config["make_webhook"] = "https://make/hook"
    /\ config["make_webhook"] = ""
    /\ \E i \in FxAt(last.fx, "forward") :
          /\ last.fx[i].to = "https://make/hook"
          /\ last.fx[i].outcome = "ok"

\* The instance was constructed before any settings were saved: a later call
\* still finds nothing configured although the config table is filled.
C16_WitnessUnconfigured ==
    /\ last.op = "automation.handle_status_change"
    /\ automation.config["make_webhook"] = None
    /\ config["make_webhook"] = "https://make/hook"
    /\ \E i \in FxAt(last.fx, "forward") : last.fx[i].outcome = "unconfigured"

\* The last operation is a form submission that changed a lead's stored status.
UiStatusChange ==
    \/ /\ last.op = "UpdateStatus"
       /\ last.args.new_status # last.args.old_status
    \/ /\ last.op = "CreateDeal"
       /\ last.args.deal_stage = "Won"
       /\ last.args.old_status # "Deal Closed"

\* C17: every change of a lead's stored status made by a UI action (the
\* Update Status button, or a deal created with stage Won) comes with one run
\* of the dispatcher for that lead within the same request: when the request
\* has been served, the workflow mapped to the new status has been entered
\* and one forward carrying the lead, the old and the new status was made.
C17_UiChangeRunsDispatcher ==
    UiStatusChange =>
        LET new_status == leads[last.args.lead_id].lead_status
        IN /\ Cardinality(FxAt(last.fx, "forward")) = 1
           /\ \A i \in FxAt(last.fx, "forward") :
                 /\ last.fx[i].data.lead_id = last.args.lead_id
                 /\ last.fx[i].data.old_status = last.args.old_status
                 /\ last.fx[i].data.new_status = new_status
           /\ HandlersEntered(last.fx) = { WorkflowOf(new_status) } \ { "none" }

\* The positions at which the last operation entered the Production Complete
\* workflow.
ProductionCompleteRuns ==
    { h \in FxAt(last.fx, "handler") :
        last.fx[h].to = "_calculate_and_notify_commissions" }

\* C18: when the Production Complete workflow has just run for a lead,
\* running it again for the same lead on the store it left (the lead's most
\* recent deal and its value unchanged), whatever transport fails this
\* time, leaves the deal's four commission amounts as the first run stored
\* them and changes no other stored field.
C18_ProductionCompleteIdempotent ==
    \A h \in ProductionCompleteRuns :
        LET l == last.fx[h].data[1]
            d == LatestDealId(Store, l)
        IN \A env \in Envs :
              LET again == _calculate_and_notify_commissions(
                               Store, _load_config(Store), env, _get_lead_data(Store, l))
              IN /\ \A c \in CommissionColumns :
                       d # 0 => again.st.deals[d][c] = deals[d][c]
                 /\ again.st = Store

\* The workflow ran for a lead with two deals of different values, stored the
\* split of the most recent one and reached the manager by email.
C18_Witness ==
    /\ IsHSC
    /\ last.args.new_status = "Production Complete"
    /\ Len(deals) = 2
    /\ deals[1].lead_id = last.args.lead_id
    /\ deals[2].lead_id = last.args.lead_id
    /\ deals[1].deal_value = 1000
    /\ deals[2].deal_value = 5000
    /\ deals[2].total_commission = Real(130000)
    /\ \E h \in ProductionCompleteRuns :
          \E i \in DealWritesAfter(last.fx, h) : last.fx[i].data[1] = 2
    /\ \E i \in FxAt(last.fx, "email") : last.fx[i].outcome = "ok"

\* The workflow handlers that send both an email and a chat-webhook message.
EmailAndChatHandlers ==
    { "_notify_closer_call_booked", "_notify_producer_new_project",
      "_calculate_and_notify_commissions", "_setup_recurring_payment" }

\* A send (email, chat message or payment-link call) of the sequence of
\* effects did not go through.
SendFailed(fx) ==
    \E i \in 1..Len(fx) :
        /\ fx[i].kind \in { "email", "discord", "stripe" }
        /\ fx[i].outcome # "ok"

\* C19: in a handle_status_change call, each email of a handler that sends
\* both an email and a chat-webhook message is followed by the attempt of the
\* chat-webhook message, whether the email went out, failed or was refused
\* for want of configuration; when any send of the handler did not go
\* through, the forward is still made, as the last effect; and the call does
\* not raise.
C19_SendFailuresAreIndependent ==
    IsHSC =>
        LET fx == last.fx
        IN /\ ~last.raised
           /\ \A h \in FxAt(fx, "handler") :
                 fx[h].to \in EmailAndChatHandlers =>
                    \A i \in FxAt(fx, "email") :
                       /\ i < Len(fx)
                       /\ fx[i + 1].kind = "discord"
           /\ SendFailed(fx) =>
                 /\ Len(fx) > 0
                 /\ fx[Len(fx)].kind = "forward"
                 /\ Cardinality(FxAt(fx, "forward")) = 1

\* The email of the Call Booked workflow failed in transport; the chat
\* message and the forward went out after it.
C19_Witness ==
    /\ IsHSC
    /\ last.args.new_status = "Call Booked"
    /\ \E i \in FxAt(last.fx, "email") :
          /\ last.fx[i].outcome = "failed"
          /\ last.fx[i + 1].kind = "discord"
          /\ last.fx[i + 1].outcome = "ok"
    /\ last.fx[Len(last.fx)].kind = "forward"
    /\ last.fx[Len(last.fx)].outcome = "ok"

\* The address the workflow of new_status mails for a lead, None when the
\* lead or the settings hold none.
RecipientOf(new_status, lead_data, cfg) ==
    CASE new_status \in { "Call Booked", "Deal Closed" } -> lead_data.closer_email
      [] new_status = "Production Started" -> lead_data.producer_email
      [] OTHER -> ManagerEmail(cfg)

\* What a handle_status_change call on a stored lead does whatever is
\* missing: it does not raise and ends with the forward; the workflows that
\* work on a deal (Deal Closed, Production Complete) write the deal exactly
\* when the lead has one; the payment provider is called exactly when Deal
\* Closed runs for a lead with a deal and an API key is configured; the
\* email is attempted exactly when its recipient has an address and, in
\* those two workflows, the lead has a deal.
MissingContextDegrades ==
    LET fx == last.fx
        new_status == last.args.new_status
        l == last.args.lead_id
        lead_data == _get_lead_data(Store, l)
        has_deal == LatestDealId(Store, l) # 0
        needs_deal == new_status \in { "Deal Closed", "Production Complete" }
        cfg == _load_config(Store)
        has_recipient == Truthy(RecipientOf(new_status, lead_data, cfg))
    IN /\ ~last.raised
       /\ fx[Len(fx)].kind = "forward"
       /\ (FxAt(fx, "stripe") # {})
             <=> ( /\ new_status = "Deal Closed"
                   /\ has_deal
                   /\ Truthy(cfg_get(cfg, "stripe_api_key")) )
       /\ (FxAt(fx, "write") # {}) <=> (needs_deal /\ has_deal)
       /\ (FxAt(fx, "email") # {}) <=> (has_recipient /\ (needs_deal => has_deal))

\* The data the chat message of the workflow of new_status is made of is
\* there: the deal, for the commission split of Production Complete.
ChatDataPresent(new_status, l) ==
    new_status = "Production Complete" => LatestDealId(Store, l) # 0

\* C20 as stated: a workflow handler called for a lead with no closer, no
\* producer or no deal does not raise and skips exactly the sends that need
\* what is missing; the chat message of the Call Booked, Production
\* Started, Production Complete and Closed+Paid workflows, which has no
\* recipient address, is attempted even when the closer, producer or manager
\* email is missing.
C20_ChatAttemptedWithoutRecipient ==
    (HSCLeadFound /\ last.args.new_status \in MappedStatuses) =>
        /\ MissingContextDegrades
        /\ ( /\ last.args.new_status # "Deal Closed"
             /\ ChatDataPresent(last.args.new_status, last.args.lead_id) )
           => FxAt(last.fx, "discord") # {}

\* C20 as amended: a workflow handler called for a lead with no closer, no
\* producer or no deal does not raise; Deal Closed and Production Complete
\* do nothing without a deal, and with one they still create and store the
\* payment link, or store the commissions, when the recipient of their email
\* is missing; every email is skipped exactly when its recipient address is
\* missing; and the chat message of the Call Booked, Production Started,
\* Production Complete and Closed+Paid workflows is attempted exactly when
\* the email of the same workflow is, so it is not attempted when the
\* closer, producer or manager email is missing.
C20_ChatSkippedWithoutRecipient ==
    (HSCLeadFound /\ last.args.new_status \in MappedStatuses) =>
        /\ MissingContextDegrades
        /\ (FxAt(last.fx, "discord") # {})
              <=> ( /\ last.args.new_status # "Deal Closed"
                    /\ FxAt(last.fx, "email") # {} )

\* Call Booked ran for a stored lead whose closer has no email on file: the
\* handler was entered and only the forward followed.
C20_Witness ==
    /\ HSCLeadFound
    /\ last.args.new_status = "Call Booked"
    /\ ~Truthy(_get_lead_data(Store, last.args.lead_id).closer_email)
    /\ Len(last.fx) = 2
    /\ last.fx[1].kind = "handler"
    /\ last.fx[2].kind = "forward"

\* Deal Closed ran for a lead with a deal and no closer email: the link was
\* created and stored, and no email followed.
C20_WitnessDealClosed ==
    /\ HSCLeadFound
    /\ last.args.new_status = "Deal Closed"
    /\ ~Truthy(_get_lead_data(Store, last.args.lead_id).closer_email)
    /\ FxAt(last.fx, "write") # {}
    /\ FxAt(last.fx, "email") = {}

\* The step is a handle_status_change call with new_status = status for a
\* stored lead.
DispatchStep(status) ==
    /\ last = Idle
    /\ last'.op = "handle_status_change"
    /\ last'.args.new_status = status
    /\ last'.args.lead_id \in 1..Len(leads)

\* The payment provider was not configured, or its call failed, in the
\* operation whose effects are fx and whose settings are those of st.
ProviderUnavailable(st, fx) ==
    \/ ~Truthy(cfg_get(_load_config(st), "stripe_api_key"))
    \/ \E i \in FxAt(fx, "stripe") : fx[i].outcome = "failed"

\* C21: a Deal Closed call for a lead without a deal leaves the deals as they
\* are and sends no email; for a lead with a deal it changes the deals table
\* in the stripe_payment_link of the lead's greatest-id deal only, the link
\* is not empty, it is the fallback URL ending in that deal's id when the
\* provider is unconfigured or its call fails, and the email is attempted
\* exactly when the lead's closer has an email on file.
C21_DealClosedStoresLink ==
    [][ DispatchStep("Deal Closed") =>
          LET l == last'.args.lead_id
              fx == last'.fx
              d == LatestDealId(Store, l)
              closer_email == _get_lead_data(Store, l).closer_email
          IN IF d = 0
             THEN /\ deals' = deals
                  /\ FxAt(fx, "email") = {}
                  /\ FxAt(fx, "stripe") = {}
             ELSE LET link == deals'[d].stripe_payment_link
                  IN /\ deals' = [deals EXCEPT ![d].stripe_payment_link = link]
                     /\ Truthy(link)
                     /\ ProviderUnavailable(Store, fx) => link = FallbackUrl(d)
                     /\ (FxAt(fx, "email") # {}) <=> Truthy(closer_email)
                     /\ \A i \in FxAt(fx, "email") :
                           /\ fx[i].to = closer_email
                           /\ fx[i].data[2] = link
      ]_vars

\* Deal Closed ran for a lead with two deals and no closer while the provider
\* was not configured: the second deal holds the fallback URL of its id, the
\* first deal holds no link, and no email was attempted.
C21_Witness ==
    /\ HSCLeadFound
    /\ last.args.new_status = "Deal Closed"
    /\ Len(deals) = 2
    /\ deals[1].lead_id = last.args.lead_id
    /\ deals[2].lead_id = last.args.lead_id
    /\ ~Truthy(_get_lead_data(Store, last.args.lead_id).closer_email)
    /\ ~Truthy(cfg_get(_load_config(Store), "stripe_api_key"))
    /\ deals[2].stripe_payment_link = FallbackUrl(2)
    /\ deals[1].stripe_payment_link = None
    /\ FxAt(last.fx, "email") = {}

\* Deal Closed ran with the provider configured and its call failing, for a
\* lead whose closer has an email: the fallback URL was stored and mailed.
C21_WitnessProviderError ==
    /\ HSCLeadFound
    /\ last.args.new_status = "Deal Closed"
    /\ \E i \in FxAt(last.fx, "stripe") : last.fx[i].outcome = "failed"
    /\ \E d \in 1..Len(deals) : deals[d].stripe_payment_link = FallbackUrl(d)
    /\ FxAt(last.fx, "email") # {}

\* The sends of notifications in a sequence of effects.
Notifications(fx) == FxAt(fx, "email") \cup FxAt(fx, "discord")

\* C22: a Production Complete call for a lead with a deal writes the four
\* commission amounts of the split of the deal's value to the lead's
\* greatest-id deal, the write coming before every notification and whatever
\* the notifications do; when neither manager_email nor smtp_email is
\* configured, no email and no chat message is sent and the write is still
\* made; for a lead without a deal nothing is written and nothing is sent.
C22_CommissionsStoredBeforeNotification ==
    [][ DispatchStep("Production Complete") =>
          LET l == last'.args.lead_id
              fx == last'.fx
              d == LatestDealId(Store, l)
              manager_email == ManagerEmail(_load_config(Store))
          IN IF d = 0
             THEN /\ deals' = deals
                  /\ FxAt(fx, "write") = {}
                  /\ Notifications(fx) = {}
             ELSE LET c == commission_breakdown(deals[d].deal_value)
                      amounts == << c.commission_lead_gen, c.commission_closer,
                                    c.commission_producer, c.total_commission >>
                  IN /\ deals' = [deals EXCEPT
                                    ![d].commission_lead_gen = Real(c.commission_lead_gen),
                                    ![d].commission_closer = Real(c.commission_closer),
                                    ![d].commission_producer = Real(c.commission_producer),
                                    ![d].total_commission = Real(c.total_commission)]
                     /\ \E w \in FxAt(fx, "write") :
                           /\ fx[w].to = "deals"
                           /\ fx[w].data = << d, amounts >>
                           /\ \A n \in Notifications(fx) : w < n
                     /\ ~Truthy(manager_email) => Notifications(fx) = {}
      ]_vars

\* Production Complete ran for a lead with a deal while no manager recipient
\* was configured: the commissions were written and nothing was sent.
C22_Witness ==
    /\ HSCLeadFound
    /\ last.args.new_status = "Production Complete"
    /\ ~Truthy(ManagerEmail(_load_config(Store)))
    /\ LatestDealId(Store, last.args.lead_id) # 0
    /\ FxAt(last.fx, "write") # {}
    /\ Notifications(last.fx) = {}

\* Production Complete ran with a manager recipient and both notifications
\* failing: the commissions were written before them.
C22_WitnessSendsFail ==
    /\ HSCLeadFound
    /\ last.args.new_status = "Production Complete"
    /\ FxAt(last.fx, "write") # {}
    /\ \E e \in FxAt(last.fx, "email") : last.fx[e].outcome = "failed"
    /\ \E n \in FxAt(last.fx, "discord") : last.fx[n].outcome = "failed"

\* The step is a payment_intent.succeeded event carrying the numerals of two
\* ids of which one names no stored row.
PaymentStepWithAbsentRow ==
    /\ last = Idle
    /\ last'.op = "handle_stripe_webhook"
    /\ last'.args.type = "payment_intent.succeeded"
    /\ last'.args.data_ok
    /\ NamesAnId(last'.args.deal_id)
    /\ NamesAnId(last'.args.lead_id)
    /\ \/ RowsNamed(last'.args.lead_id, Len(leads)) = {}
       \/ RowsNamed(last'.args.deal_id, Len(deals)) = {}

\* The step is a workflow-engine event (producer_confirmation, or
\* manual_status_update with a new status) carrying the numeral of a lead id
\* that names no stored lead.
MakeStepWithAbsentLead ==
    /\ last = Idle
    /\ last'.op = "handle_make_webhook"
    /\ last'.args.data_ok
    /\ \/ last'.args.event_type = "producer_confirmation"
       \/ /\ last'.args.event_type = "manual_status_update"
          /\ Truthy(last'.args.new_status)
    /\ NamesAnId(last'.args.lead_id)
    /\ RowsNamed(last'.args.lead_id, Len(leads)) = {}

\* C23: an ingress or dispatcher operation that names a lead id or a deal id
\* absent from the store is a no-op: it changes nothing in the store, sends
\* no notification and does not raise; in particular a
\* payment_intent.succeeded event whose lead_id or deal_id matches no row.
C23_AbsentRowIsNoOp ==
    [][ (PaymentStepWithAbsentRow \/ MakeStepWithAbsentLead) =>
          /\ store_vars' = store_vars
          /\ Notifications(last'.fx) = {}
          /\ ~last'.raised ]_vars

\* The part of C23 the workflow-engine ingress and the dispatcher keep: an
\* event naming an absent lead changes nothing, sends nothing and does not
\* raise.
C23_AbsentLeadViaMake ==
    [][ MakeStepWithAbsentLead =>
          /\ store_vars' = store_vars
          /\ last'.fx = << >>
          /\ ~last'.raised ]_vars

\* The stored amount is absent or is rate hundredths of value.
NullOrShare(stored, rate, value) == stored = NullReal \/ stored = Real(rate * value)

\* Every stored commission amount of every deal is the share of the deal's
\* own stored value.
StoredCommissionsMatchValue ==
    \A d \in 1..Len(deals) :
        /\ NullOrShare(deals[d].commission_lead_gen, LeadGenRate, deals[d].deal_value)
        /\ NullOrShare(deals[d].commission_closer, CloserRate, deals[d].deal_value)
        /\ NullOrShare(deals[d].commission_producer, ProducerRate, deals[d].deal_value)
        /\ NullOrShare(deals[d].total_commission, TotalRate, deals[d].deal_value)

\* No step removes a deal or changes the value or the lead of a stored deal.
DealValuesKept ==
    /\ Len(deals') >= Len(deals)
    /\ \A d \in 1..Len(deals) :
          /\ deals'[d].deal_value = deals[d].deal_value
          /\ deals'[d].lead_id = deals[d].lead_id

\* C24: in every reachable state every deal whose commission amounts are
\* stored holds 8%, 10%, 8% and 26% of its own stored deal value, and no
\* operation changes the value of a stored deal.
C24_CommissionsNeverStale ==
    /\ []StoredCommissionsMatchValue
    /\ [][DealValuesKept]_vars

\* Production Complete ran, through the producer_confirmation event, for a
\* lead with two deals of different values: each deal holds the split of its
\* own value.
C24_Witness ==
    /\ IsMake
    /\ last.args.event_type = "producer_confirmation"
    /\ \E i \in FxAt(last.fx, "write") : last.fx[i].data[1] = 2
    /\ Len(deals) = 2
    /\ deals[1].deal_value # deals[2].deal_value
    /\ deals[2].total_commission = Real(TotalRate * deals[2].deal_value)
    /\ deals[1].total_commission = Real(TotalRate * deals[1].deal_value)

\* The operations of the automation layer and its ingress.
AutomationOps ==
    { "handle_status_change", "handle_make_webhook", "handle_stripe_webhook" }

\* C25: a handle_status_change call, made directly or by a
\* manual_status_update event, leaves every lead's stored status as it was,
\* for every new_status; among the automation operations only a
\* payment_intent.succeeded event changes a lead, and it stores Production
\* Started.
C25_DispatcherKeepsLeadStatus ==
    [][ /\ last'.op \in { "handle_status_change", "handle_make_webhook" }
           => leads' = leads
        /\ (last'.op \in AutomationOps /\ leads' # leads)
           => /\ last'.op = "handle_stripe_webhook"
              /\ last'.args.type = "payment_intent.succeeded"
              /\ \A l \in 1..Len(leads) :
                    leads'[l].lead_status \in { leads[l].lead_status,
                                                "Production Started" }
      ]_vars

\* A manual_status_update event ran the dispatcher for a stored lead with a
\* mapped new status, and the lead's stored status is not that status.
C25_Witness ==
    /\ IsMake
    /\ last.args.event_type = "manual_status_update"
    /\ last.args.new_status \in MappedStatuses
    /\ FxAt(last.fx, "handler") # {}
    /\ \E l \in RowsNamed(last.args.lead_id, Len(leads)) :
          leads[l].lead_status # last.args.new_status

\* A direct handle_status_change call ran a workflow for a stored lead whose
\* stored status is not the dispatched status.
C25_WitnessDirect ==
    /\ HSCLeadFound
    /\ FxAt(last.fx, "handler") # {}
    /\ leads[last.args.lead_id].lead_status # last.args.new_status

\* The step is a statement of the payment run.
PaymentStep == payment' # payment

\* The committed store shows the deal of the payment run Paid, where the
\* deal exists.
DealShownPaid(ds, d) == d \in 1..Len(ds) => ds[d].payment_status = "Paid"

\* The committed store shows the lead of the payment run advanced, where the
\* lead exists.
LeadShownAdvanced(ls, l) ==
    l \in 1..Len(ls) => ls[l].lead_status = "Production Started"

\* C26: the payment-succeeded path commits payment_status = Paid of the deal
\* and lead_status = Production Started of the lead in one transaction:
\* among the statements of the run only the commit changes the store the
\* other processes read, the step that shows them the deal Paid is the step
\* that shows them the lead advanced, and the Production Started
\* notification is made by a step that follows the commit.
C26_PaymentCommitsTogether ==
    [][ PaymentStep =>
          /\ payment'.pc # "committed" => store_vars' = store_vars
          /\ deals' # deals =>
                /\ payment'.pc = "committed"
                /\ LeadShownAdvanced(leads', payment.lead_id)
          /\ leads' # leads =>
                /\ payment'.pc = "committed"
                /\ DealShownPaid(deals', payment.deal_id)
          /\ payment'.pc = "committed" =>
                /\ DealShownPaid(deals', payment.deal_id)
                /\ LeadShownAdvanced(leads', payment.lead_id)
          /\ payment'.fx # payment.fx /\ payment'.fx # << >> =>
                /\ payment.pc = "committed"
                /\ store_vars' = store_vars
      ]_vars

\* The run for a stored deal and a stored lead has executed both UPDATEs and
\* not committed: the store the other processes read still shows the deal
\* not Paid and the lead not advanced.
C26_WitnessBeforeCommit ==
    /\ payment.pc = "lead_updated"
    /\ Len(payment.pending) = 2
    /\ payment.deal_id \in 1..Len(deals)
    /\ payment.lead_id \in 1..Len(leads)
    /\ deals[payment.deal_id].payment_status # "Paid"
    /\ leads[payment.lead_id].lead_status # "Production Started"

\* The run has committed and returned: the store shows the deal Paid and
\* the lead advanced, and the producer's email went out after the commit.
C26_Witness ==
    /\ payment.pc = "returned"
    /\ payment.deal_id \in 1..Len(deals)
    /\ payment.lead_id \in 1..Len(leads)
    /\ deals[payment.deal_id].payment_status = "Paid"
    /\ leads[payment.lead_id].lead_status = "Production Started"
    /\ \E i \in FxAt(payment.fx, "email") : payment.fx[i].outcome = "ok"

====
